------------------------------- MODULE MCUser -------------------------------
(***************************************************************************)
(* What is between the user and the kernel, for TLC: standard input, the   *)
(* editor's text, the windows, the TLS connection and the agent.  They     *)
(* share no state (the agent's transport uses TLS through its outcome), so *)
(* each is explored beside the others at rest: subject says which one      *)
(* runs.                                                                   *)
(***************************************************************************)
EXTENDS Keyboard, TextBuffer, WindowManager, Tls, Agent, TLC

VARIABLE subject

vars == <<subject, kbdVars, bufVars, wmVars, tlsVars, agentVars>>

AtRest == conn = NewConnection /\ srv = NewServer(TRUE) /\ toServer = <<>> /\ toClient = <<>>
Init ==
    /\ subject \in {"keys", "text", "windows", "tls", "agent"}
    /\ KbdInit /\ BufInit /\ WmInit /\ TlsInit /\ AgentInit
    /\ subject = "tls" \/ AtRest

KeysRun    == subject = "keys" /\ KbdNext /\ UNCHANGED <<subject, bufVars, wmVars, tlsVars, agentVars>>
TextRuns   == subject = "text" /\ BufNext /\ UNCHANGED <<subject, kbdVars, wmVars, tlsVars, agentVars>>
WindowsRun == subject = "windows" /\ WmNext /\ UNCHANGED <<subject, kbdVars, bufVars, tlsVars, agentVars>>
TlsRuns    == subject = "tls" /\ TlsNext /\ UNCHANGED <<subject, kbdVars, bufVars, wmVars, agentVars>>
AgentRuns  == subject = "agent" /\ AgentNext /\ UNCHANGED <<subject, kbdVars, bufVars, wmVars, tlsVars>>

Next == KeysRun \/ TextRuns \/ WindowsRun \/ TlsRuns \/ AgentRuns

Spec == Init /\ [][Next]_vars

-----------------------------------------------------------------------------
(* Values of the constants. *)

ScancodesDef == {Prefix, Make("x"), Make("arrow"), Make("shift"), Break("shift"), Make("caps")}

TypedDef == {<<"a">>, <<"e", "+">>}
FilesDef == {<<>>, <<" ", "a">>}

\* Calls of every kind the session tells apart, among them two spellings of a path.
ToolCall(tool, target, input) == [tool |-> tool, target |-> target, input |-> input]
CallsDef ==
    {ToolCall("write_file", <<"data", "notes">>, "valid"),
     ToolCall("write_file", <<"tmp", "..", "data", "Config", "key">>, "valid"),
     ToolCall("read_file", <<"data", ".", "notes">>, "valid"),
     ToolCall("run_command", <<"plain">>, "valid"),
     ToolCall("run_command", <<"/config">>, "valid"),
     ToolCall("open_app", NoTarget, "valid"),
     ToolCall("fetch_url", <<"ftp">>, "valid"),
     ToolCall("screenshot", NoTarget, "empty"),
     ToolCall("list_dir", <<"data">>, "bad"),
     ToolCall("unknown", NoTarget, "valid")}
LowerDef == "Config" :> "config"

-----------------------------------------------------------------------------
(* Checks of the pure operators over bounded inputs. *)

\* normalize leads where a walk of the components leads, and the policy's tests of the
\* prefix are tests of that place.
Names == {"data", "Config", "config", "tmp", "dev", "..", "."}
WalkIsExact ==
    \A n \in 0 .. 4 : \A path \in [1 .. n -> Names] :
        LET place == Location(path)
            clean == Normalize(path)
        IN  /\ LowerCased(clean) = place
            /\ IsProtected(clean) <=> \E dir \in Protected : IsPrefix(dir, place)
            /\ IsWritableLocation(clean) => place[1] \in {"data", "tmp"}

ASSUME WalkIsExact
=============================================================================
