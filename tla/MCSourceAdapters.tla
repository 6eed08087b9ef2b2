-------------------------- MODULE MCSourceAdapters --------------------------
(***************************************************************************)
(* SourceAdapters for TLC: two texts an operator may type in any place     *)
(* that takes one, and answers with two postings at most.  Beside it the   *)
(* parser of careers pages, PageTree, reads every short page, and          *)
(* parse_salary, Salary, many postings.  The three share no state, so one  *)
(* of them moves while the others are at their beginning.                  *)
(***************************************************************************)
EXTENDS SourceAdapters, PageTree, Salary, TLC

CONSTANTS t1, t2

MCTexts == {t1, t2}

MCInit == Init /\ TreeInit /\ SalaryInit

MCNext ==
    \/ page = <<>> /\ quote = Absent /\ Next /\ UNCHANGED <<treevars, salaryvars>>
    \/ runs = <<>> /\ quote = Absent /\ TreeNext /\ UNCHANGED <<vars, salaryvars>>
    \/ runs = <<>> /\ page = <<>> /\ SalaryNext /\ UNCHANGED <<vars, treevars>>

MCSpec == MCInit /\ [][MCNext]_<<vars, treevars, salaryvars>>

Symmetry == Permutations(MCTexts)
=============================================================================
