------------------------------- MODULE Agent -------------------------------
(***************************************************************************)
(* The agent (crates/otter-agent): ask sends the conversation to the API   *)
(* and runs the tools the answers call for, until an answer ends the turn  *)
(* (crates/otter-claude, run_tool_loop).  The answer is a stream of events *)
(* that may fail to arrive, stop anywhere or carry an error; the user says *)
(* yes or no; the system may fail.                                         *)
(*                                                                         *)
(* A call names one of the seven tools of crates/otter-tools, a target     *)
(* (the components of a path, or one word for a command or a URL) and      *)
(* whether its input matches the tool's schema; Verdict is what the tool   *)
(* session decides about it before it touches the system.                  *)
(***************************************************************************)
EXTENDS Queues, SequencesExt

CONSTANTS
    BadNames,   \* components of a path is_valid_component turns down
    Lower,      \* to_lowercase, for the names that have capitals
    Calls,      \* tool calls answers make
    MaxAsks,    \* bound: questions
    MaxTurns,   \* max_turns: 16
    MaxBlocks,  \* bound: content blocks of an answer
    MaxContent  \* bound: content blocks altogether

PathTools == {"list_dir", "read_file", "write_file", "open_app"}
TOOLS == PathTools \cup {"run_command", "fetch_url", "screenshot"}
NoTarget == <<"none">>     \* open_app without a path
\* Calls as they arrive.  The schema of write_file requires a path: without one the input
\* is not valid.
Words == {"none"} \cup UNION {ToSet(c.target) : c \in Calls}
ToolCalls ==
    {c \in [tool : TOOLS \cup {"unknown", "none"}, target : Seq(Words), input : {"valid", "empty", "bad", "none"}] :
        c.tool = "write_file" /\ c.input = "valid" => c.target # NoTarget}

ASSUME AgentAssumption ==
    /\ Calls \subseteq ToolCalls
    /\ MaxAsks \in Nat /\ MaxTurns \in Nat /\ MaxBlocks \in Nat /\ MaxContent \in Nat

VARIABLES
    chat,       \* Conversation::messages
    loop,       \* run_tool_loop: where it is, its turn and the answer in hand
    errorCell,  \* transport_error
    asked, reply,   \* bound: questions so far; what the last one returned
    log,        \* Session::log
    usersYes, effects,  \* history: calls the user allowed; calls that reached the system
    used        \* history: content blocks so far, for ids

agentVars == <<chat, loop, errorCell, asked, reply, log, usersYes, effects, used>>

-----------------------------------------------------------------------------
(* The tool session: paths, protected and writable places, approval.       *)

NeedsApproval == {"write_file", "run_command", "open_app", "fetch_url"}

\* normalize: "." and empty components are dropped, ".." takes a component back.
Component(dirs, name) ==
    IF name = ".." THEN IF dirs = <<>> THEN dirs ELSE Front(dirs)
    ELSE IF name \in {".", ""} THEN dirs
    ELSE Append(dirs, name)
Normalize(path) ==
    LET dirs[k \in 0 .. Len(path)] == IF k = 0 THEN <<>> ELSE Component(dirs[k - 1], path[k])
    IN  dirs[Len(path)]
\* A path with a bad component is turned down even if a later ".." would drop it.
ValidPath(path) == \A i \in DOMAIN path : path[i] \notin BadNames

LowerCased(path) == [i \in DOMAIN path |-> IF path[i] \in DOMAIN Lower THEN Lower[path[i]] ELSE path[i]]
Protected == {<<"data", "config">>, <<"boot", "modules">>, <<"dev">>}
IsProtected(path) == \E dir \in Protected : IsPrefix(dir, LowerCased(path))
IsWritableLocation(path) == Len(path) > 1 /\ LowerCased(path)[1] \in {"data", "tmp"}

HasPath(call) == call.tool \in PathTools /\ call.target # NoTarget
Malformed(call) ==
    \/ call.tool \notin TOOLS \/ call.input # "valid"
    \/ HasPath(call) /\ ~ValidPath(call.target)
    \/ call.tool = "fetch_url" /\ call.target # <<"http">>
Forbidden(call) ==
    \/ call.tool = "run_command" /\ call.target = <<"/config">>
    \/ HasPath(call) /\ LET path == Normalize(call.target)
                        IN  IsProtected(path) \/ (call.tool = "write_file" /\ ~IsWritableLocation(path))
\* What Session::call does with a call.
Verdict(call) ==
    IF Malformed(call) THEN "Invalid" ELSE IF Forbidden(call) THEN "Refused"
    ELSE IF call.tool \in NeedsApproval THEN "ask" ELSE "run"

\* The path the system is given.
Target(call) == IF HasPath(call) THEN Normalize(call.target) ELSE call.target

\* Where a path leads on a disk that does not tell capitals apart, looked at from the end:
\* a name counts unless a later ".." takes it back.
Backs(path) ==   \* how many names the last n components take back
    LET back[n \in 0 .. Len(path)] ==
            IF n = 0 THEN 0
            ELSE LET name == path[Len(path) - n + 1]
                 IN  IF name = ".." THEN back[n - 1] + 1
                     ELSE IF name \in {".", ""} \/ back[n - 1] = 0 THEN back[n - 1]
                     ELSE back[n - 1] - 1
    IN  back
Counts(path, k) == path[k] \notin {"..", ".", ""} /\ Backs(path)[Len(path) - k] = 0
Location(path) ==
    LET left[k \in 0 .. Len(path)] ==
            IF k = 0 THEN <<>>
            ELSE IF Counts(path, k) THEN Append(left[k - 1], path[k]) ELSE left[k - 1]
    IN  LowerCased(left[Len(path)])

-----------------------------------------------------------------------------
(* The conversation.                                                       *)

NoCall == [tool |-> "none", target |-> NoTarget, input |-> "none"]
Block(kind, id, call) == [kind |-> kind, id |-> id, call |-> call]
\* ended is history: why the answer stopped.
ChatMessage(role, blocks, results, ended) == [role |-> role, blocks |-> blocks, results |-> results, ended |-> ended]
Result(id, outcome) == [id |-> id, outcome |-> outcome]
Idle == [at |-> "idle", turn |-> 0, blocks |-> <<>>, next |-> 1, results |-> <<>>]

AgentInit ==
    /\ chat = <<>> /\ loop = Idle /\ errorCell = "none" /\ asked = 0 /\ reply = "none"
    /\ log = <<>> /\ usersYes = {} /\ effects = <<>> /\ used = 0

-----------------------------------------------------------------------------
(* The stream.  An event of the wire is [kind, block]. *)

Sse(kind, block) == [kind |-> kind, block |-> block]
NoBlock == Block("none", 0, NoCall)
\* What the API sends for a block; a call with empty input has no input delta.
BlockEvents(b) ==
    IF b.kind = "text" THEN <<Sse("text_delta", b), Sse("block_stop", b)>>
    ELSE IF b.kind = "thinking" THEN <<Sse("thinking_delta", b), Sse("block_stop", b)>>
    ELSE IF b.call.input = "empty" THEN <<Sse("tool_start", b), Sse("block_stop", b)>>
    ELSE <<Sse("tool_start", b), Sse("input_delta", b), Sse("block_stop", b)>>
ContentEvents(blocks) ==
    LET sent[i \in 0 .. Len(blocks)] ==
            IF i = 0 THEN <<>> ELSE sent[i - 1] \o BlockEvents(blocks[i])
    IN  sent[Len(blocks)]
Stream(blocks, reason) ==
    ContentEvents(blocks) \o <<Sse("message_delta", Block(reason, 0, NoCall)), Sse("message_stop", NoBlock)>>

\* StopReason: a reason from_str does not know, or none, leaves the parser's as it was.
StopReasons == {"end_turn", "tool_use", "max_tokens", "refusal", "pause_turn"}
\* StreamParser::next_event and the loop's assembly of its events into the message.
FreshParser == [blocks |-> <<>>, tool |-> NoBlock, delta |-> FALSE, reason |-> "end_turn", over |-> "no"]
Extend(p, kind) ==
    IF p.blocks # <<>> /\ Last(p.blocks).kind = kind THEN p
    ELSE [p EXCEPT !.blocks = Append(@, Block(kind, 0, NoCall))]
\* The input of a finished tool block is what came, or {} if nothing did.
Ready(p) ==
    LET call == IF p.delta THEN p.tool.call ELSE [p.tool.call EXCEPT !.input = "empty"]
    IN  [p EXCEPT !.blocks = Append(Front(@), Block("tool", p.tool.id, call)), !.tool = NoBlock, !.delta = FALSE]
NextEvent(p, e) ==
    CASE p.over # "no" -> p
      [] p.over = "no" /\ e.kind = "text_delta" -> Extend(p, "text")
      [] p.over = "no" /\ e.kind = "thinking_delta" -> Extend(p, "thinking")
      [] p.over = "no" /\ e.kind = "tool_start" ->
           [p EXCEPT !.blocks = Append(@, Block("tool", e.block.id, NoCall)), !.tool = e.block, !.delta = FALSE]
      [] p.over = "no" /\ e.kind = "input_delta" -> [p EXCEPT !.delta = TRUE]
      [] p.over = "no" /\ e.kind = "block_stop" -> IF p.tool # NoBlock THEN Ready(p) ELSE p
      [] p.over = "no" /\ e.kind = "message_delta" ->
           [p EXCEPT !.reason = IF e.block.kind \in StopReasons THEN e.block.kind ELSE @]
      [] p.over = "no" /\ e.kind = "message_stop" -> [p EXCEPT !.over = "stop"]
      [] p.over = "no" /\ e.kind = "error" -> [p EXCEPT !.over = "error"]
Parsed(events) ==
    LET after[k \in 0 .. Len(events)] == IF k = 0 THEN FreshParser ELSE NextEvent(after[k - 1], events[k])
    IN  after[Len(events)]

-----------------------------------------------------------------------------
(* ask and run_tool_loop. *)

\* ask returns; an error a transport stored wins over the loop's own.
Returns(outcome) ==
    /\ reply' = IF errorCell' # "none" THEN errorCell' ELSE outcome
    /\ UNCHANGED asked
    /\ loop' = Idle
ToolBlocks == [kind : {"tool"}, id : Nat, call : ToolCalls]
ToolUses(blocks) == Kept(blocks, ToolBlocks)

Ask ==
    /\ loop.at = "idle" /\ asked < MaxAsks
    /\ chat' = Append(chat, ChatMessage("user", <<Block("text", 0, NoCall)>>, <<>>, "none"))
    /\ errorCell' = "none"
    /\ loop' = [Idle EXCEPT !.at = "send", !.turn = 1]
    /\ asked' = asked + 1
    /\ UNCHANGED <<reply, log, usersYes, effects, used>>

TooManyTurns ==
    /\ loop.at = "send" /\ loop.turn > MaxTurns
    /\ UNCHANGED errorCell
    /\ Returns("TooManyTurns")
    /\ UNCHANGED <<chat, log, usersYes, effects, used>>

\* AgentTransport::send fails: connecting and the handshake also store their error.
SendFails ==
    /\ loop.at = "send" /\ loop.turn <= MaxTurns
    /\ \E e \in {"Connect", "Tls", "Http", "Protocol"} :
         /\ errorCell' = IF e \in {"Connect", "Tls"} THEN e ELSE errorCell
         /\ Returns(e)
    /\ UNCHANGED <<chat, log, usersYes, effects, used>>

\* What the loop does with a parsed answer.
Handle(p) ==
    LET answer == ChatMessage("assistant", p.blocks, <<>>, p.reason)
        pushed == chat' = Append(chat, answer)
    IN  CASE p.over = "error" -> UNCHANGED chat /\ Returns("Api")
          [] p.over = "no" -> UNCHANGED chat /\ Returns("Protocol")
          [] p.over = "stop" /\ p.reason = "max_tokens" -> UNCHANGED chat /\ Returns("Api")
          [] p.over = "stop" /\ p.reason = "end_turn" -> pushed /\ Returns("Done")
          [] p.over = "stop" /\ p.reason = "refusal" -> pushed /\ Returns("Api")
          [] p.over = "stop" /\ p.reason = "pause_turn" ->
               pushed /\ loop' = [loop EXCEPT !.turn = @ + 1] /\ UNCHANGED <<asked, reply>>
          [] p.over = "stop" /\ p.reason = "tool_use" ->
               pushed /\ loop' = [loop EXCEPT !.at = "tools", !.blocks = p.blocks] /\ UNCHANGED <<asked, reply>>

\* The API's answers: any blocks with any reason for the end; the connection may end after
\* any event (the end of the TCP stream is accepted without a close_notify), and an error
\* may take the place of the rest.
Contents ==
    UNION {{[i \in 1 .. n |-> Block(s[i].kind, used + i, s[i].call)] :
               s \in [1 .. n -> {Block("text", 0, NoCall), Block("thinking", 0, NoCall)} \cup
                               {Block("tool", 0, c) : c \in Calls}]} : n \in 0 .. MaxBlocks}
Reasons == StopReasons \cup {"unknown"}
Receive ==
    /\ loop.at = "send" /\ loop.turn <= MaxTurns
    /\ UNCHANGED errorCell
    /\ \E blocks \in Contents : \E reason \in Reasons :
         /\ used + Len(blocks) <= MaxContent
         /\ used' = used + Len(blocks)
         /\ LET s == Stream(blocks, reason)
            IN  \/ Handle(Parsed(s))
                \/ \E cut \in 0 .. Len(s) - 1 :
                     \/ Handle(Parsed(SubSeq(s, 1, cut)))
                     \/ Handle(Parsed(Append(SubSeq(s, 1, cut), Sse("error", NoBlock))))
    /\ UNCHANGED <<log, usersYes, effects>>

-----------------------------------------------------------------------------
(* The tools of an answer, one after the other. *)

Current == loop.blocks[loop.next]
AtTool == loop.at = "tools" /\ loop.next <= Len(loop.blocks) /\ Current.kind = "tool"
\* validate_tool_input: a tool the conversation does not list is not checked here.
Unfit(call) == call.tool \in TOOLS /\ call.input # "valid" /\ ~(call.tool = "screenshot" /\ call.input = "empty")
Fitted(call) == IF call.tool = "screenshot" /\ call.input = "empty" THEN [call EXCEPT !.input = "valid"] ELSE call
Answered(outcome) ==
    loop' = [loop EXCEPT !.next = @ + 1, !.results = Append(@, Result(Current.id, outcome)), !.at = "tools"]
Logged(outcome) == log' = Append(log, Result(Current.id, outcome))

Skip ==
    /\ loop.at = "tools" /\ loop.next <= Len(loop.blocks) /\ Current.kind # "tool"
    /\ loop' = [loop EXCEPT !.next = @ + 1]
    /\ UNCHANGED <<chat, errorCell, asked, reply, log, usersYes, effects, used>>
\* A plausible slip: a call with bad input is passed over.
TurnDown_Skips ==
    /\ AtTool /\ Unfit(Current.call)
    /\ loop' = [loop EXCEPT !.next = @ + 1]
    /\ UNCHANGED <<chat, errorCell, asked, reply, log, usersYes, effects, used>>
TurnDown ==
    /\ AtTool /\ Unfit(Current.call)
    /\ Answered("unfit")
    /\ UNCHANGED <<chat, errorCell, asked, reply, log, usersYes, effects, used>>

\* Session::call up to the question, or to its end if the call does not get that far.
Refuse ==
    /\ AtTool /\ ~Unfit(Current.call)
    /\ Verdict(Fitted(Current.call)) \in {"Invalid", "Refused"}
    /\ Logged(Verdict(Fitted(Current.call))) /\ Answered(Verdict(Fitted(Current.call)))
    /\ UNCHANGED <<chat, errorCell, asked, reply, usersYes, effects, used>>
\* A plausible slip: a tool the user once allowed is not asked about again.
Decide_Remembers ==
    /\ AtTool /\ ~Unfit(Current.call)
    /\ \/ /\ Verdict(Fitted(Current.call)) = "ask" /\ loop' = [loop EXCEPT !.at = "ask"]
       \/ /\ \/ Verdict(Fitted(Current.call)) = "run"
             \/ Verdict(Fitted(Current.call)) = "ask" /\ \E e \in ToSet(effects) : e.tool = Current.call.tool
          /\ loop' = [loop EXCEPT !.at = "execute"]
    /\ UNCHANGED <<chat, errorCell, asked, reply, log, usersYes, effects, used>>
Decide ==
    /\ AtTool /\ ~Unfit(Current.call)
    /\ \/ Verdict(Fitted(Current.call)) = "ask" /\ loop' = [loop EXCEPT !.at = "ask"]
       \/ Verdict(Fitted(Current.call)) = "run" /\ loop' = [loop EXCEPT !.at = "execute"]
    /\ UNCHANGED <<chat, errorCell, asked, reply, log, usersYes, effects, used>>

\* The user.
Allow ==
    /\ loop.at = "ask"
    /\ usersYes' = usersYes \cup {Current.id}
    /\ loop' = [loop EXCEPT !.at = "execute"]
    /\ UNCHANGED <<chat, errorCell, asked, reply, log, effects, used>>
Deny ==
    /\ loop.at = "ask"
    /\ Logged("Denied") /\ Answered("Denied")
    /\ UNCHANGED <<chat, errorCell, asked, reply, usersYes, effects, used>>

\* The call reaches the system, which does it or fails.
Execute ==
    /\ loop.at = "execute"
    /\ \E ok \in BOOLEAN :
         LET done == IF Current.call.tool \in NeedsApproval THEN "Allowed" ELSE "AutoRun"
             outcome == IF ok THEN done ELSE "Failed"
         IN  /\ effects' = Append(effects, [id |-> Current.id, tool |-> Current.call.tool, raw |-> Current.call.target,
                                            path |-> Target(Current.call), ok |-> ok])
             /\ Logged(outcome) /\ Answered(outcome)
    /\ UNCHANGED <<chat, errorCell, asked, reply, usersYes, used>>

\* All results go back in one user message and the next turn begins.
Report ==
    /\ loop.at = "tools" /\ loop.next > Len(loop.blocks)
    /\ chat' = Append(chat, ChatMessage("user", <<>>, loop.results, "none"))
    /\ loop' = [Idle EXCEPT !.at = "send", !.turn = loop.turn + 1]
    /\ UNCHANGED <<errorCell, asked, reply, log, usersYes, effects, used>>

AgentNext ==
    \/ Ask \/ TooManyTurns \/ SendFails \/ Receive \/ Skip \/ TurnDown \/ Refuse
    \/ Decide \/ Allow \/ Deny \/ Execute \/ Report

AgentSpec == AgentInit /\ [][AgentNext]_agentVars

-----------------------------------------------------------------------------
RanEntries == [id : Nat, outcome : {"Allowed", "AutoRun", "Failed"}]

\* Nothing that changes the system or leaves it happens without the user's yes to that
\* very call, and nothing reaches a protected place (or writes outside /data and /tmp),
\* however the path is written; and the action log tells what happened: it has one entry
\* for each call that came to the session, and says it was run exactly if it was.
ConsentFirst ==
    /\ \A i \in DOMAIN effects :
         LET e == effects[i]
         IN  /\ e.tool \in NeedsApproval => e.id \in usersYes
             /\ e.tool \in PathTools /\ e.raw # NoTarget =>
                  /\ ~\E dir \in Protected : IsPrefix(dir, Location(e.raw))
                  /\ LowerCased(e.path) = Location(e.raw)
             /\ e.tool = "write_file" => Location(e.raw)[1] \in {"data", "tmp"}
    /\ \A i, j \in DOMAIN log : log[i].id = log[j].id => i = j
    /\ LET ran == Kept(log, RanEntries)
       IN  /\ Len(ran) = Len(effects)
           /\ \A i \in DOMAIN ran : ran[i].id = effects[i].id /\ (ran[i].outcome # "Failed" <=> effects[i].ok)

\* Whatever was cut off, denied, refused or failed, in this question or an earlier one, an
\* answer that ended in tool_use is followed at once by one user message with exactly the
\* results of its calls, in order, each with what became of the call.  An answer that
\* ended otherwise stays in the conversation as it came: none of its calls ever comes to
\* the session, and no message has a result for it.
ToolCallsAnswered ==
    \A i \in DOMAIN chat :
        LET uses == ToolUses(chat[i].blocks)
        IN  /\ chat[i].ended = "tool_use" =>
                 \/ i = Len(chat) /\ loop.at \in {"tools", "ask", "execute"}
                 \/ /\ i < Len(chat) /\ chat[i + 1].role = "user"
                    /\ Len(chat[i + 1].results) = Len(uses)
                    /\ \A k \in DOMAIN uses :
                         LET r == chat[i + 1].results[k]
                         IN  /\ r.id = uses[k].id
                             /\ r.outcome \in {"Allowed", "AutoRun"} <=>
                                  \E e \in ToSet(effects) : e.id = r.id /\ e.ok
            /\ chat[i].ended # "tool_use" => \A k \in DOMAIN uses :
                 /\ \A n \in DOMAIN log : log[n].id # uses[k].id
                 /\ \A j \in DOMAIN chat : \A n \in DOMAIN chat[j].results : chat[j].results[n].id # uses[k].id
=============================================================================
