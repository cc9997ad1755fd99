----------------------------- MODULE MCPlanner -----------------------------
(***************************************************************************)
(* Instances of Planner: the tools of the real registry, two spreadsheets  *)
(* of the same name, an image and a recording, one question for each way   *)
(* of planning, and plans of the LLM of up to two steps.                   *)
(***************************************************************************)
EXTENDS Planner, TLC

CONSTANTS sheet, copy, picture, recording

MCTools ==
  { "transcribe_audio", "analyze_excel", "file_reader", "python_interpreter",
    "analyze_image", "web_search", "visit_webpage", "youtube_transcript" }

MCFiles == {sheet, copy, picture, recording}

MCKind ==
  (sheet :> "sheet") @@ (copy :> "sheet") @@ (picture :> "image")
  @@ (recording :> "document")

MCNameOf ==
  (sheet :> "table.xlsx") @@ (copy :> "table.xlsx") @@ (picture :> "chart.png")
  @@ (recording :> "talk.mp3")

Plain ==
  [ arithmetic |-> FALSE, logic |-> FALSE, transform |-> FALSE,
    file |-> FALSE, image |-> FALSE, media |-> FALSE, url |-> "none",
    wiki |-> FALSE, quantity |-> FALSE, fact |-> FALSE, code |-> FALSE,
    query |-> "plain", named |-> {}, marker |-> FALSE ]

MCQuestions ==
  { [Plain EXCEPT !.arithmetic = TRUE, !.code = TRUE],
    [Plain EXCEPT !.arithmetic = TRUE, !.marker = TRUE],
    [Plain EXCEPT !.logic = TRUE],
    [Plain EXCEPT !.transform = TRUE, !.named = {sheet, copy}],
    [Plain EXCEPT !.file = TRUE, !.marker = TRUE],
    [Plain EXCEPT !.file = TRUE, !.named = {sheet, copy}, !.fact = TRUE],
    [Plain EXCEPT !.image = TRUE, !.marker = TRUE],
    [Plain EXCEPT !.image = TRUE, !.named = {picture}, !.url = "page"],
    [Plain EXCEPT !.media = TRUE, !.url = "youtube"],
    [Plain EXCEPT !.media = TRUE, !.marker = TRUE],
    [Plain EXCEPT !.url = "page"],
    [Plain EXCEPT !.wiki = TRUE, !.url = "page"],
    [Plain EXCEPT !.wiki = TRUE],
    [Plain EXCEPT !.quantity = TRUE],
    [Plain EXCEPT !.fact = TRUE, !.query = "code"],
    [Plain EXCEPT !.fact = TRUE, !.query = "none"],
    Plain }

Search == ToolStep("web_search")
Visit == ToolStep("visit_webpage")
Compute == ToolStep("python_interpreter")
Transcript == ToolStep("youtube_transcript")
Read == StepOn("file_reader", sheet)
ReadByName == StepOn("file_reader", "table.xlsx")
Other(step) == [step EXCEPT !.rest = "other"]
Bad(step) == [step EXCEPT !.rest = "bad"]

\* Plans an LLM writes, some with files named by path, some by base name, some with
\* arguments of its own, with arguments no tool takes, with a tool there is not,
\* with repetitions (one of which only the repair reveals), or too long.
MCReplies ==
  { <<>>, <<LLMStep>>, <<Search>>, <<Other(Search)>>, <<Visit>>, <<Compute>>,
    <<Transcript>>, <<Read>>, <<Bad(Read)>>, <<StepOn("file_reader", recording)>>,
    <<StepOn("file_reader", "talk.mp3")>>, <<Read, ReadByName>>,
    <<StepOn("analyze_excel", sheet)>>, <<StepOn("analyze_excel", "table.xlsx")>>,
    <<StepOn("analyze_image", picture)>>,
    <<ToolStep("transcribe_audio")>>, <<ToolStep("unknown")>>,
    <<Search, Visit>>, <<Search, Other(Search)>>, <<Visit, Visit>>,
    <<Search, Transcript>>, <<Compute, Other(Compute)>>,
    <<Search, Visit, LLMStep>> }

\* Two searches count as the same, whatever they search for.
MCAlike ==
  {<<a, b>> \in Step \X Step :
     a = b \/ (a.tool = "web_search" /\ b.tool = "web_search")}
=============================================================================
