-------------------------- MODULE MCAgentExecution --------------------------
(***************************************************************************)
(* Small instances of AgentExecution for TLC.                              *)
(***************************************************************************)
EXTENDS AgentExecution, TLC

CONSTANTS search, editor, unknown

MCRegistered == {search, editor}

MCCapability == (search :> "NETWORK_READ") @@ (editor :> "EXTERNAL_WRITE")

ToolRequest(tool, hits) == [type |-> "TOOL", tool |-> tool, hits |-> hits]
LLMRequest(hits) == [type |-> "LLM", tool |-> NoTool, hits |-> hits]

\* For each tool: no keyword, a side effect (which a harmless tool has not), and
\* a factor of medium level that is not mandatory; steps without a tool, one of
\* them with a word such as "write"; and two malformed requests.
MCRequests ==
  { ToolRequest(tool, hits) : tool \in {search, editor, unknown},
      hits \in {{}, {"EXTERNAL_SIDE_EFFECT"}, {"REPUTATIONAL"}} }
  \cup { LLMRequest({}), LLMRequest({"DATA_MODIFICATION"}) }
  \cup { ToolRequest(NoTool, {}), [type |-> "LLM", tool |-> search, hits |-> {}] }

MCAnalyses ==
  { [level |-> LOW, factors |-> {}], [level |-> LOW, factors |-> {"FINANCIAL"}],
    [level |-> MEDIUM, factors |-> {}] }

CallSymmetry == Permutations(Calls)
=============================================================================
