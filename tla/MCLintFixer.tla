----------------------------- MODULE MCLintFixer -----------------------------
(* Programs with a try block for the fixer: a write, a write that fails, and *)
(* a read of what is left.                                                   *)
EXTENDS LintFixer

TryLines == {Set("x", "1"), Set("x", "1/y"), Say("x"), Mark("try"), Mark("catch"), Mark("end")}
=============================================================================
