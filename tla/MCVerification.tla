--------------------------- MODULE MCVerification ---------------------------
(***************************************************************************)
(* Instances of Verification: two numbers, one text, and one result for    *)
(* each thing the rules look for.                                          *)
(***************************************************************************)
EXTENDS Verification, TLC

CONSTANTS n1, n2, t1

Blank ==
  [ field |-> Nothing, finals |-> {}, incidental |-> {}, numbers |-> {},
    marker |-> FALSE, whole |-> Nothing ]

Final(n) == [Blank EXCEPT !.finals = {n}, !.numbers = {n}]

By(tool, content) == [tool |-> tool, declares |-> FALSE, content |-> content]

MCNumbers == {n1, n2}
MCTexts == {t1}

\* Results of one run of tools over a few steps.
MCResults ==
  { By("python_interpreter", Final(n1)),
    By("file_reader", Final(n2)),
    By("file_reader", [Blank EXCEPT !.field = n1, !.numbers = {n1}]),
    By("analyze_image", [Blank EXCEPT !.numbers = {n1}, !.marker = TRUE]),
    By("web_search", Final(n1)),
    By("llm", Final(n1)),
    [ tool |-> "python_interpreter", declares |-> TRUE,
      content |-> [Blank EXCEPT !.whole = n2, !.numbers = {n2}] ] }

MCCandidates == {n1, t1, Nothing}
=============================================================================
