------------------------------ MODULE Strategy ------------------------------
(***************************************************************************)
(* What the planner makes of a question before it plans: the intent the    *)
(* task classifier reads off its words, the tools this intent forbids, and *)
(* the strategy the selector derives from the intent, the registered tools *)
(* and the files at hand.                                                  *)
(*                                                                         *)
(* A question is abstracted to the findings of the classifier's patterns   *)
(* and keyword lists, and of the searches the planner makes in its text.   *)
(***************************************************************************)
EXTENDS Naturals, Sequences, FiniteSets

CONSTANTS
  Tools,       \* names of the registered tools
  Files,       \* files an attachment or the configuration may name
  Kind,        \* what the suffix of a file says it is
  NoFile       \* None for a file

FileKind == {"image", "tiff", "sheet", "document"}

ASSUME StrategyAssumption ==
  /\ IsFiniteSet(Files)
  /\ Kind \in [Files -> FileKind]
  /\ NoFile \notin Files

Question ==
  [ arithmetic : BOOLEAN,   \* an operation or keyword, and a digit or sign
    logic : BOOLEAN,        \* an algebraic structure
    transform : BOOLEAN,    \* a text transformation, perhaps backwards
    file : BOOLEAN,
    image : BOOLEAN,
    media : BOOLEAN,        \* audio or video keywords
    url : {"none", "page", "youtube"},
    wiki : BOOLEAN,
    quantity : BOOLEAN,     \* a quantitative word problem
    fact : BOOLEAN,
    code : BOOLEAN,         \* Python can be synthesised for it
    query : {"none", "plain", "code"},   \* what a search query for it is like
    named : SUBSET Files,   \* files named in it
    marker : BOOLEAN ]      \* it speaks of something attached

Intent ==
  { "ARITHMETIC", "TEXT_TRANSFORMATION", "LOCAL_FILE", "IMAGE",
    "AUDIO_VIDEO", "URL_PAGE", "FACTUAL_SEARCH", "SELF_CONTAINED" }

\* TaskClassifier.classify and _classify_media_and_web: the first rule counts.
Rules(question) ==
  << <<question.arithmetic \/ question.logic, "ARITHMETIC">>,
     <<question.transform, "TEXT_TRANSFORMATION">>,
     <<question.file, "LOCAL_FILE">>,
     <<question.image, "IMAGE">>,
     <<question.media \/ question.url = "youtube", "AUDIO_VIDEO">>,
     <<question.url = "page" /\ "visit_webpage" \in Tools, "URL_PAGE">>,
     <<question.wiki, "FACTUAL_SEARCH">>,
     <<question.quantity /\ "python_interpreter" \in Tools, "ARITHMETIC">>,
     <<question.fact, "FACTUAL_SEARCH">>,
     <<TRUE, "SELF_CONTAINED">> >>

IntentOf(question) ==
  LET rules == Rules(question)
      first == CHOOSE i \in 1..10 :
                 rules[i][1] /\ \A j \in 1..10 : rules[j][1] => i <= j
  IN  rules[first][2]

Local == {"ARITHMETIC", "TEXT_TRANSFORMATION"}

\* TaskAnalysis.forbidden_tools
Forbidden(question) ==
  CASE IntentOf(question) \in Local -> {"web_search", "visit_webpage"}
    [] IntentOf(question) = "SELF_CONTAINED" -> {"web_search"}
    [] OTHER -> {}

-----------------------------------------------------------------------------
None == "none"

\* The tool if it is registered, and None otherwise.
Registered(tool) == IF tool \in Tools THEN tool ELSE None

HasImage(files) == \E f \in files : Kind[f] \in {"image", "tiff"}

HasSpreadsheet(files) == \E f \in files : Kind[f] = "sheet"

MediaTools ==
  << "youtube_transcript", "transcribe_audio", "video_reader", "audio_reader",
     "analyze_video" >>

MediaTool ==
  LET registered == {i \in 1..5 : MediaTools[i] \in Tools}
  IN  IF registered = {} THEN None
      ELSE MediaTools[CHOOSE i \in registered :
                        \A j \in registered : i <= j]

\* recommended_first_tool, which the selector reads for a factual question.
FirstTool(question) ==
  IF question.wiki /\ "visit_webpage" \in Tools
  THEN "visit_webpage" ELSE Registered("web_search")

Decision(tool, deterministic) ==
  [tool |-> tool, deterministic |-> deterministic]

\* StrategySelector.select
Strategy(question, files) ==
  LET intent == IntentOf(question)
  IN  CASE intent \in Local ->
             Decision(Registered("python_interpreter"),
                      "python_interpreter" \in Tools)
        [] intent = "URL_PAGE" -> Decision("visit_webpage", TRUE)
        [] intent = "IMAGE" ->
             Decision(Registered("analyze_image"),
                      HasImage(files) /\ "analyze_image" \in Tools)
        [] intent = "LOCAL_FILE" ->
             Decision(IF HasSpreadsheet(files) /\ "analyze_excel" \in Tools
                      THEN "analyze_excel"
                      ELSE IF files # {}
                      THEN Registered("file_reader") ELSE None, TRUE)
        [] intent = "AUDIO_VIDEO" -> Decision(MediaTool, MediaTool # None)
        [] intent = "FACTUAL_SEARCH" -> Decision(FirstTool(question), FALSE)
        [] intent = "SELF_CONTAINED" -> Decision(None, TRUE)

-----------------------------------------------------------------------------
(* The file a question is about.                                           *)

\* Planner._select_file: the only file that is named, or the only file there is
\* when the question speaks of one.
Selected(question, files) ==
  LET named == files \cap question.named
  IN  IF Cardinality(named) = 1 THEN CHOOSE f \in named : TRUE
      ELSE IF Cardinality(files) = 1 /\ question.marker
      THEN CHOOSE f \in files : TRUE
      ELSE NoFile
=============================================================================
