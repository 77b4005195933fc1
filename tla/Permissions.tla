----------------------------- MODULE Permissions ----------------------------
(***************************************************************************)
(* The permission bridge (copilot_permission.go, copilot.go) and the       *)
(* adapter-tool bridge beside it (copilot_toolcall.go, copilot_toolpipe.go).*)
(*                                                                         *)
(* The SDK calls back on goroutines of its own: a permission request waits *)
(* for the host's decision or the end of its Execute, an adapter tool call *)
(* for its result.  Decisions and results arrive over Permissions streams, *)
(* of which there may be several, and a stream that ends answers whatever  *)
(* is pending.  Executes, streams and callbacks come and go freely.        *)
(***************************************************************************)
EXTENDS Naturals

CONSTANTS
    Sessions,      \* adapter sessions
    Callbacks,     \* the SDK's callbacks: records of their session, their
                   \* kind and the tool call id the model gave them
    CallIds,       \* those ids
    Streams,       \* Permissions streams, numbered as they are opened
    MaxExecutes    \* bound on the Executes of one session

Kinds == {"permission",   \* a request the host decides
          "own",          \* the request for adapter_tool itself
          "tool"}         \* a call of adapter_tool

ASSUME PermissionsAssumption ==
    /\ Callbacks \subseteq [session : Sessions, kind : Kinds, call : CallIds]
    /\ Streams \subseteq Nat /\ MaxExecutes \in Nat

VARIABLES
    active,        \* sessionState.active
    execute,       \* the number of a session's current or last Execute:
                   \* its activeCh and sink
    ask,           \* the callbacks: how far each is, the Execute whose sink
                   \* and activeCh it read, its answer
    pendingPerms,  \* copilotAdapter.pendingPerms: request id to callback
    pendingCalls,  \* the pending tool calls of the ToolCallBridge
    decision,      \* what lies in a callback's decisionCh
    stream,        \* the Permissions calls
    asked,         \* the callbacks whose permission.request reached the host
    granted        \* those the host answered with yes (or with a result)
                   \* while somebody waited under their id

executeVars == <<active, execute>>
bridgeVars == <<pendingPerms, pendingCalls, decision>>
hostVars == <<asked, granted>>
permVars == <<executeVars, ask, bridgeVars, stream, hostVars>>

Points == {"new", "captured", "registered", "waiting", "leaving", "answered"}
Answers == {"none", "approved", "rejected", "unavailable"}
Verdicts == {"allow",   \* the request is allowed; a tool call has its result
             "deny"}    \* cancelled

Idle == [pc |-> "new", execute |-> 0, answer |-> "none"]

PermInit ==
    /\ active = [s \in Sessions |-> FALSE]
    /\ execute = [s \in Sessions |-> 0]
    /\ ask = [c \in Callbacks |-> Idle]
    /\ pendingPerms = {} /\ pendingCalls = {}
    /\ decision = [c \in Callbacks |-> "none"]
    /\ stream = [k \in Streams |-> "unopened"]
    /\ asked = {} /\ granted = {}

-----------------------------------------------------------------------------
(* Executes, as far as callbacks see them. *)

BeginExecute(s) ==
    /\ ~active[s] /\ execute[s] < MaxExecutes
    /\ active' = [active EXCEPT ![s] = TRUE]
    /\ execute' = [execute EXCEPT ![s] = @ + 1]
    /\ UNCHANGED <<ask, bridgeVars, stream, hostVars>>

EndExecute(s) ==
    /\ active[s]
    /\ active' = [active EXCEPT ![s] = FALSE]
    /\ UNCHANGED <<execute, ask, bridgeVars, stream, hostVars>>

(* activeCh of the Execute a callback was made in is closed. *)
ExecuteOver(c) == ~active[c.session] \/ execute[c.session] # ask[c].execute

-----------------------------------------------------------------------------
(* The registry of pending permission requests. *)

(* Mutant: the request is known by the model's tool call id. *)
ToolCallID(c) == c.call

(* buildPermEventPayload: always a fresh UUID. *)
RequestID(c) == c

Entry(c) == [id |-> RequestID(c), to |-> c]

registerPendingPerm(c) ==
    pendingPerms' = {e \in pendingPerms : e.id # RequestID(c)} \cup {Entry(c)}

resolvePendingPerm(c) == pendingPerms' = {e \in pendingPerms : e.id # RequestID(c)}

-----------------------------------------------------------------------------
(* handlePermissionRequest and handleAdapterToolCall. *)

Answered(c, answer) ==
    ask' = [ask EXCEPT ![c].pc = "answered", ![c].answer = answer]

(* The gate of adapter_tool itself is the wire call, not this request.     *)
AnswerLocally(c) ==
    /\ ask[c].pc = "new" /\ c.kind = "own"
    /\ Answered(c, "approved")
    /\ UNCHANGED <<executeVars, bridgeVars, stream, hostVars>>

(* Read active, sink and activeCh, or refuse outside an Execute.           *)
Capture(c) ==
    /\ ask[c].pc = "new" /\ c.kind # "own"
    /\ IF active[c.session]
       THEN ask' = [ask EXCEPT ![c].pc = "captured", ![c].execute = execute[c.session]]
       ELSE Answered(c, "unavailable")
    /\ UNCHANGED <<executeVars, bridgeVars, stream, hostVars>>

(* Mutant: the host is asked before the channel is registered. *)
RegisterLate(c) ==
    /\ ask[c].pc = "captured" /\ c.kind = "permission"
    /\ ask' = [ask EXCEPT ![c].pc = "registered"]
    /\ UNCHANGED <<executeVars, bridgeVars, stream, hostVars>>

Register(c) ==
    /\ ask[c].pc = "captured" /\ c.kind = "permission"
    /\ ask' = [ask EXCEPT ![c].pc = "registered"]
    /\ registerPendingPerm(c)
    /\ UNCHANGED <<executeVars, pendingCalls, decision, stream, hostVars>>

(* The event reaches the host, or the sink refuses it. *)
Forward(c) ==
    /\ ask[c].pc = "registered"
    /\ \/ /\ ask' = [ask EXCEPT ![c].pc = "waiting"]
          /\ asked' = asked \cup {c}
          /\ UNCHANGED pendingPerms
       \/ /\ resolvePendingPerm(c)
          /\ Answered(c, "unavailable")
          /\ UNCHANGED asked
    /\ UNCHANGED <<executeVars, pendingCalls, decision, stream, granted>>

(* CallAdapterTool registers the call and sends its request on the sink.   *)
CallBridge(c) ==
    /\ ask[c].pc = "captured" /\ c.kind = "tool"
    /\ \/ /\ ask' = [ask EXCEPT ![c].pc = "waiting"]
          /\ pendingCalls' = pendingCalls \cup {c}
          /\ asked' = asked \cup {c}
       \/ /\ Answered(c, "unavailable")
          /\ UNCHANGED <<pendingCalls, asked>>
    /\ UNCHANGED <<executeVars, pendingPerms, decision, stream, granted>>

TakeDecision(c) ==
    /\ ask[c].pc = "waiting" /\ decision[c] # "none"
    /\ Answered(c, IF decision[c] = "allow" THEN "approved" ELSE "rejected")
    /\ decision' = [decision EXCEPT ![c] = "none"]
    /\ UNCHANGED <<executeVars, pendingPerms, pendingCalls, stream, hostVars>>

(* The select may also see the closed activeCh; a tool call has none.      *)
Leave(c) ==
    /\ ask[c].pc = "waiting" /\ c.kind = "permission" /\ ExecuteOver(c)
    /\ ask' = [ask EXCEPT ![c].pc = "leaving"]
    /\ UNCHANGED <<executeVars, bridgeVars, stream, hostVars>>

(* The tool call's own context is done. *)
AbandonCall(c) ==
    /\ ask[c].pc = "waiting" /\ c \in pendingCalls
    /\ pendingCalls' = pendingCalls \ {c}
    /\ Answered(c, "rejected")
    /\ UNCHANGED <<executeVars, pendingPerms, decision, stream, hostVars>>

(* Mutant: the entry stays behind. *)
RejectOnly(c) ==
    /\ ask[c].pc = "leaving"
    /\ Answered(c, "rejected")
    /\ UNCHANGED <<executeVars, bridgeVars, stream, hostVars>>

Reject(c) ==
    /\ ask[c].pc = "leaving"
    /\ resolvePendingPerm(c)
    /\ Answered(c, "rejected")
    /\ UNCHANGED <<executeVars, pendingCalls, decision, stream, hostVars>>

-----------------------------------------------------------------------------
(* Permissions streams and the host behind them. *)

Open(k) ==
    /\ stream[k] = "unopened" /\ \A j \in Streams : j < k => stream[j] # "unopened"
    /\ stream' = [stream EXCEPT ![k] = "open"]
    /\ UNCHANGED <<executeVars, ask, bridgeVars, hostVars>>

(* The callbacks among cs that a send reaches: their channel has room.     *)
Reached(cs) == {c \in cs : decision[c] = "none"}

(* A stream receives what the host has to say about a callback it was      *)
(* asked about: on time, late, or once more.  Whoever waits under the      *)
(* request id gets the verdict.  The bridge's loop is handed the event too *)
(* and knows the id only if it is one of its pending calls, so one step    *)
(* stands for both.                                                        *)
Dispatch(k, c, verdict) ==
    LET to == {e.to : e \in {x \in pendingPerms : x.id = RequestID(c)}}
                \cup ({c} \cap pendingCalls)
    IN  /\ stream[k] = "open" /\ c \in asked
        /\ decision' = [x \in Callbacks |-> IF x \in Reached(to) THEN verdict ELSE decision[x]]
        /\ resolvePendingPerm(c)
        /\ pendingCalls' = pendingCalls \ {c}
        /\ granted' = IF verdict = "allow" /\ to # {} THEN granted \cup {c} ELSE granted
        /\ UNCHANGED <<executeVars, ask, stream, asked>>

(* Recv fails: what the host had sent is lost, and the pipe is closed.     *)
RecvEnds(k) ==
    /\ stream[k] = "open"
    /\ stream' = [stream EXCEPT ![k] = "closing"]
    /\ UNCHANGED <<executeVars, ask, bridgeVars, hostVars>>

(* Mutant: the feed stays open, so the loop does not end. *)
BridgeLoopGoesOn(k) ==
    /\ stream[k] = "closing"
    /\ stream' = [stream EXCEPT ![k] = "draining"]
    /\ UNCHANGED <<executeVars, ask, bridgeVars, hostVars>>

(* The feed is closed: the loop ends and resolves every pending call.      *)
BridgeLoopEnds(k) ==
    /\ stream[k] = "closing"
    /\ stream' = [stream EXCEPT ![k] = "draining"]
    /\ decision' = [c \in Callbacks |-> IF c \in pendingCalls THEN "deny" ELSE decision[c]]
    /\ pendingCalls' = {}
    /\ UNCHANGED <<executeVars, ask, pendingPerms, hostVars>>

(* Mutant: the channels are closed rather than sent a decision. *)
DrainCloses(k) ==
    /\ stream[k] = "draining"
    /\ stream' = [stream EXCEPT ![k] = "ended"]
    /\ decision' = [c \in Callbacks |-> IF c \in Reached({e.to : e \in pendingPerms}) THEN "closed"
                                        ELSE decision[c]]
    /\ pendingPerms' = {}
    /\ UNCHANGED <<executeVars, ask, pendingCalls, hostVars>>

(* drainPendingPerms: all of them, whichever session and stream they are of. *)
Drain(k) ==
    /\ stream[k] = "draining"
    /\ stream' = [stream EXCEPT ![k] = "ended"]
    /\ decision' = [c \in Callbacks |-> IF c \in Reached({e.to : e \in pendingPerms}) THEN "deny"
                                        ELSE decision[c]]
    /\ pendingPerms' = {}
    /\ UNCHANGED <<executeVars, ask, pendingCalls, hostVars>>

-----------------------------------------------------------------------------

CallbackSteps(c) ==
    \/ Register(c) \/ Forward(c) \/ CallBridge(c)
    \/ TakeDecision(c) \/ Leave(c) \/ Reject(c)

Teardown(k) == BridgeLoopEnds(k) \/ Drain(k)

PermNext ==
    \/ \E s \in Sessions : BeginExecute(s) \/ EndExecute(s)
    \/ \E c \in Callbacks : AnswerLocally(c) \/ Capture(c) \/ CallbackSteps(c) \/ AbandonCall(c)
    \/ \E k \in Streams : Open(k) \/ RecvEnds(k) \/ Teardown(k)
    \/ \E k \in Streams, c \in Callbacks, verdict \in Verdicts : Dispatch(k, c, verdict)

PermSpec == PermInit /\ [][PermNext]_permVars

(* A callback that can go on does, an ended stream is torn down, and every *)
(* Execute ends (KeepsPromise of Turn).  Nothing is asked of the host.     *)
PermFairSpec ==
    /\ PermSpec
    /\ \A c \in Callbacks : WF_permVars(CallbackSteps(c))
    /\ \A k \in Streams : WF_permVars(Teardown(k))
    /\ \A s \in Sessions : WF_permVars(EndExecute(s))

-----------------------------------------------------------------------------
(* Properties. *)

(* Type invariant of the bridge's registries, channels and streams. *)
PermTypeOK ==
    /\ active \in [Sessions -> BOOLEAN]
    /\ execute \in [Sessions -> 0..MaxExecutes]
    /\ ask \in [Callbacks -> [pc : Points, execute : 0..MaxExecutes, answer : Answers]]
    /\ pendingPerms \subseteq {Entry(c) : c \in Callbacks}
    /\ pendingCalls \subseteq Callbacks
    /\ decision \in [Callbacks -> Verdicts \cup {"none"}]
    /\ stream \in [Streams -> {"unopened", "open", "closing", "draining", "ended"}]
    /\ asked \subseteq Callbacks
    /\ granted \subseteq asked

(* A callback that waits can be reached: its entry is in pendingPerms (a    *)
(* tool call: in the bridge's pending calls), or its one decision already  *)
(* lies in its channel, and never both.  Else neither the host nor a       *)
(* stream's end could free it: a request would hang until its Execute ends *)
(* (copilot_permission.go:63-78), a tool call beyond that.                 *)
Pending(c) == IF c.kind = "tool" THEN c \in pendingCalls ELSE Entry(c) \in pendingPerms

WaiterIsReachable ==
    \A c \in Callbacks : ask[c].pc = "waiting" => Pending(c) # (decision[c] # "none")

(* A request that was answered, by whichever of the five ways out, leaves  *)
(* no entry behind for a later decision to find (pendingPerms is a map of  *)
(* the whole process and nothing else would clear it).                     *)
NothingLeftPending ==
    \A e \in pendingPerms : ask[e.to].pc \in {"registered", "waiting", "leaving"}

(* "The bridge resolves every pending call when the stream ends, so a      *)
(* dying stream can never hang a caller" (copilot.go:252): a tool call     *)
(* that waits when a stream's receive loop ends is answered, though it     *)
(* does not look at its Execute and the host says nothing more.            *)
ToolCallersFreed ==
    \A c \in {x \in Callbacks : x.kind = "tool"} :
        (ask[c].pc = "waiting" /\ \E k \in Streams : stream[k] = "closing")
            ~> ask[c].pc = "answered"

(* The bridge implements PermissionGate: every callback is answered once,  *)
(* approved only on the host's word about that very callback, and a        *)
(* permission request is answered however silent the host is.              *)
Status(c) ==
    CASE ask[c].pc = "new" -> "new"
      [] ask[c].pc = "answered" -> IF ask[c].answer = "approved" THEN "approved" ELSE "refused"
      [] OTHER -> "asking"

Gate == INSTANCE PermissionGate WITH
    Free <- {c \in Callbacks : c.kind = "own"},
    Prompt <- {c \in Callbacks : c.kind = "permission"},
    status <- [c \in Callbacks |-> Status(c)]

KeepsGate == Gate!GateSpec

=============================================================================
