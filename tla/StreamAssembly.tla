--------------------------- MODULE StreamAssembly ---------------------------
(***************************************************************************)
(* What StreamAccumulator makes of the events of a model stream            *)
(* (stream_assembly.rs).                                                   *)
(***************************************************************************)
EXTENDS StreamEvents, SequencesExt

-----------------------------------------------------------------------------
(* The projection.                                                         *)

NewBlock == [text |-> None, thinking |-> FALSE, tool |-> None, native |-> None, ended |-> FALSE]

NewAccumulator == [blocks |-> <<>>, stop |-> None, id |-> None]

\* A later delta may be the first to carry the id or the name.
ToolAfter(tool, e) ==
    IF tool = None THEN [id |-> e.id, name |-> e.name, arguments |-> e.fragment]
    ELSE [id |-> IF e.id = None THEN tool.id ELSE e.id,
          name |-> IF e.name = None THEN tool.name ELSE e.name,
          arguments |-> tool.arguments \o e.fragment]

\* What an event does to its block.
BlockAfter(block, e) ==
    CASE e.event = "text" -> [block EXCEPT !.text = IF @ = None THEN e.pieces ELSE @ + e.pieces]
      [] e.event = "restated" -> [block EXCEPT !.text = e.pieces]
      [] e.event = "reasoning" -> [block EXCEPT !.thinking = TRUE]
      [] e.event \in {"signature", "phase"} -> block
      [] e.event = "content" -> [block EXCEPT !.native = [call |-> None]]
      [] e.event = "native" -> [block EXCEPT !.native = [call |-> e.call], !.ended = TRUE]
      [] e.event = "tool" -> [block EXCEPT !.tool = ToolAfter(@, e)]
      [] e.event = "blockend" -> [block EXCEPT !.ended = TRUE]

\* observe
Observe(acc, e) ==
    CASE e.event = "start" -> [acc EXCEPT !.id = e.id]
      [] e.event = "end" -> [acc EXCEPT !.stop = e.stop]
      [] e.event = "observation" -> acc
      [] OTHER ->
           LET old == IF e.block \in DOMAIN acc.blocks THEN acc.blocks[e.block] ELSE NewBlock
           IN  [acc EXCEPT !.blocks =
                   [b \in DOMAIN @ \cup {e.block} |-> IF b = e.block THEN BlockAfter(old, e) ELSE @[b]]]

IsTerminal(acc) == acc.stop # None

\* native_terminal: the stops of a turn that may leave computer calls to execute.
NativeTerminal(acc) == acc.stop \in {"tool_use", "end_turn", "requires_action"}

\* The arguments of a complete call, or None.
Input(acc, block) ==
    LET input == IF block.tool.arguments = <<>> THEN EmptyObject ELSE block.tool.arguments
    IN  IF \/ block.tool.id = None \/ block.tool.name = None
           \/ ~block.ended /\ ~IsTerminal(acc)
           \/ ~Parses(input)
          THEN None ELSE Value(input)

\* Block::content: what a block is projected to, if anything.
ContentKind(acc, block) ==
    IF block.native # None
      THEN IF block.native.call = None THEN "provider" ELSE IF NativeTerminal(acc) THEN "computer" ELSE None
    ELSE IF block.tool # None THEN IF Input(acc, block) # None THEN "call" ELSE None
    ELSE IF block.thinking THEN "thinking"
    ELSE IF block.text # None THEN "text" ELSE None

BlocksOf(acc, kind) == {b \in DOMAIN acc.blocks : ContentKind(acc, acc.blocks[b]) = kind}

\* The function calls, computer calls and texts among the contents of a response.
Calls(acc) ==
    {[block |-> b, id |-> acc.blocks[b].tool.id, name |-> acc.blocks[b].tool.name,
      input |-> Input(acc, acc.blocks[b])] : b \in BlocksOf(acc, "call")}

ComputerCalls(acc) ==
    {[block |-> b, call |-> acc.blocks[b].native.call] : b \in BlocksOf(acc, "computer")}

Texts(acc) == {[block |-> b, pieces |-> acc.blocks[b].text] : b \in BlocksOf(acc, "text")}

\* snapshot: the tools that have no content.
IncompleteTools(acc) ==
    {b \in BlocksOf(acc, None) : acc.blocks[b].tool # None}

\* finish: whether the assembly is a response.  A length stop is one, without
\* its incomplete calls.
Finished(acc) == IsTerminal(acc) /\ (IncompleteTools(acc) = {} \/ acc.stop = "max_tokens")
=============================================================================
