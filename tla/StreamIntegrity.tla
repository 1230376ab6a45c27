-------------------------- MODULE StreamIntegrity ---------------------------
(***************************************************************************)
(* stream_integrity.go and the attempts of pumpUpstreamStream: what of an  *)
(* upstream stream reaches the client.  Text is forwarded at once; tool    *)
(* calls and finish reasons are held until the stream has ended and every  *)
(* choice of it is validated.                                              *)
(*                                                                         *)
(* Upstream sends any frames.  The name and arguments of a tool call are   *)
(* PartsOfCall fragments: with fewer or more, the concatenation is not the *)
(* name and the JSON object that end() accepts.  A frame that does not     *)
(* decode, an error object and a broken read fail alike (Malformed).       *)
(* Comments and frames with usage only carry nothing of the answer.        *)
(***************************************************************************)
EXTENDS Integers, FiniteSets

CONSTANTS
  Choices,      \* choice indices upstream uses
  Tools,        \* tool indices of a choice
  Ids,          \* tool call ids upstream uses
  Finishes,     \* finish reasons upstream uses
  None,
  PartsOfCall,  \* fragments of a complete tool call
  MaxChoices,   \* integrityMaxChoices
  MaxTools,     \* integrityMaxTools, over all choices
  MaxParts,     \* integrityMaxToolBytes, in fragments
  MaxAttempts,  \* upstreamRetryMaxAttempts
  MaxFrames     \* bound: frames of one attempt

(* Finish reasons of an answer that upstream cut short. *)
Cut == {"length", "content_filter"}

ASSUME StreamIntegrityAssumption ==
  /\ IsFiniteSet(Choices) /\ IsFiniteSet(Tools) /\ Choices \subseteq Nat
  /\ None \notin Ids /\ None \notin Tools
  /\ Finishes \subseteq Cut \cup {"stop", "tool_calls"}
  /\ {PartsOfCall, MaxAttempts} \subseteq Nat \ {0}
  /\ {MaxChoices, MaxTools, MaxParts, MaxFrames} \subseteq Nat

VARIABLES
  attempt,   \* the attempt at hand
  frames,    \* bound: frames of the attempt so far
  choice,    \* streamIntegrity.choices
  pending,   \* choices whose terminal frame is still to be emitted
  emitted,   \* a chunk of this attempt reached the client
  status,    \* of the answer: "open", "closing", "done", "failed"
  client,    \* client[c]: what the client has been sent of the choice
  said       \* history: what upstream has said in this attempt

vars == <<attempt, frames, choice, pending, emitted, status, client, said>>

NoFinish == "none"

NoCall == [id |-> None, parts |-> 0, begun |-> FALSE]
Calls == [id : Ids \cup {None}, parts : 0..MaxParts, begun : BOOLEAN]

(* integrityChoice, and whether the choice has been seen. *)
NewChoice == [begun |-> FALSE, finish |-> NoFinish, tools |-> [t \in Tools |-> NoCall]]

(* One choice of a frame: text, one fragment of a tool call, a finish.      *)
Updates ==
  {u \in [text : BOOLEAN, tool : Tools \cup {None}, id : Ids \cup {None},
          part : BOOLEAN, finish : Finishes \cup {NoFinish}] :
     u.tool = None => u.id = None /\ ~u.part}

Began == {c \in Choices : choice[c].begun}
Held == {ct \in Choices \X Tools : choice[ct[1]].tools[ct[2]].begun}

Fragments == {p \in Held \X (1..MaxParts) : p[2] <= choice[p[1][1]].tools[p[1][2]].parts}
PartsHeld == Cardinality(Fragments)

(* mergeToolCallDelta: the first id stays, fragments are appended. *)
Merged(call, u) ==
  [id |-> IF call.id = None THEN u.id ELSE call.id,
   parts |-> call.parts + (IF u.part THEN 1 ELSE 0),
   begun |-> TRUE]

(***************************************************************************)
(* feed: what a frame may not do.                                          *)
(***************************************************************************)
NotFinished(c) == choice[c].finish = NoFinish

(* Mutated: a call may change its id. *)
AnyIdentity(c, u) == TRUE

SameIdentity(c, u) ==
  u.tool # None /\ u.id # None
    => choice[c].tools[u.tool].id \in {None, u.id}

WithinLimits(f) ==
  LET new == {c \in DOMAIN f : ~choice[c].begun}
      newTools == {c \in DOMAIN f : f[c].tool # None
                                    /\ ~choice[c].tools[f[c].tool].begun}
      parts == {c \in DOMAIN f : f[c].part}
  IN /\ new # {} => Cardinality(Began) + Cardinality(new) <= MaxChoices
     /\ newTools # {} => Cardinality(Held) + Cardinality(newTools) <= MaxTools
     /\ PartsHeld + Cardinality(parts) <= MaxParts

Accepts(f) ==
  /\ \A c \in DOMAIN f : NotFinished(c) /\ SameIdentity(c, f[c])
  /\ WithinLimits(f)

Absorbed(c, u) ==
  [begun |-> TRUE,
   finish |-> u.finish,
   tools |-> IF u.tool = None THEN choice[c].tools
             ELSE [choice[c].tools EXCEPT ![u.tool] = Merged(@, u)]]

(* What the frame adds to upstream's answer, kept beside the code's state. *)
SaidMore(c, u) ==
  [text |-> said[c].text + (IF u.text THEN 1 ELSE 0),
   parts |-> IF u.part THEN [said[c].parts EXCEPT ![u.tool] = @ + 1]
             ELSE said[c].parts,
   ids |-> IF u.id # None THEN [said[c].ids EXCEPT ![u.tool] = @ \cup {u.id}]
           ELSE said[c].ids,
   tools |-> said[c].tools \cup ({u.tool} \ {None}),
   finish |-> IF u.finish # NoFinish THEN u.finish ELSE said[c].finish,
   begun |-> TRUE]

(* Mutated: the frame that finishes a choice is not forwarded. *)
VisibleUnfinished(f) == {c \in DOMAIN f : f[c].text /\ f[c].finish = NoFinish}

(* The visible rest of a frame is emitted as one chunk. *)
Visible(f) == {c \in DOMAIN f : f[c].text}

SentText(f) ==
  [c \in Choices |->
     IF c \in Visible(f)
     THEN [client[c] EXCEPT !.text = @ + 1, !.from = @ \cup {attempt}]
     ELSE client[c]]

Fail ==
  /\ status' = "failed"
  /\ UNCHANGED <<attempt, frames, choice, pending, emitted, client, said>>

(* A chat completion chunk. *)
Feed(f) ==
  /\ status = "open" /\ frames < MaxFrames
  /\ IF Accepts(f)
     THEN /\ choice' = [c \in Choices |-> IF c \in DOMAIN f THEN Absorbed(c, f[c])
                                          ELSE choice[c]]
          /\ said' = [c \in Choices |-> IF c \in DOMAIN f THEN SaidMore(c, f[c])
                                        ELSE said[c]]
          /\ client' = SentText(f)
          /\ emitted' = (emitted \/ Visible(f) # {})
          /\ frames' = frames + 1
          /\ UNCHANGED <<attempt, pending, status>>
     ELSE Fail

(* invalid_json, invalid_envelope, upstream_error_object, read_failure, and *)
(* a client that a chunk cannot be emitted to: the stream is given up.     *)
Malformed ==
  /\ status \in {"open", "closing"}
  /\ Fail

(* A throttling refusal: tried again if nothing has been emitted yet. *)
Retryable == ~emitted /\ attempt < MaxAttempts

Nothing ==
  [c \in Choices |-> [text |-> 0, parts |-> [t \in Tools |-> 0],
                      ids |-> [t \in Tools |-> {}], tools |-> {},
                      finish |-> NoFinish, begun |-> FALSE]]

SoftRefusal ==
  /\ status = "open"
  /\ IF Retryable
     THEN /\ attempt' = attempt + 1
          /\ frames' = 0 /\ emitted' = FALSE
          /\ choice' = [c \in Choices |-> NewChoice]
          /\ said' = Nothing
          /\ UNCHANGED <<pending, status, client>>
     ELSE Fail

(***************************************************************************)
(* end: at [DONE], or at the end of the body.                              *)
(***************************************************************************)
Offered(c) ==
  IF choice[c].finish \in Cut THEN {}
  ELSE {t \in Tools : choice[c].tools[t].begun}

Ended(c) == choice[c].finish # NoFinish

CallsComplete(c) ==
  \A t \in Offered(c) : choice[c].tools[t].parts = PartsOfCall

Validated(c) ==
  /\ Ended(c)
  /\ choice[c].finish = "tool_calls" => Offered(c) # {}
  /\ CallsComplete(c)

(* Ids that upstream gave are distinct; the others are made up. *)
DistinctIds ==
  \A c, d \in Began : \A t \in Offered(c), u \in Offered(d) :
    /\ choice[c].tools[t].id = choice[d].tools[u].id
    /\ choice[c].tools[t].id # None
    => c = d /\ t = u

Acceptable == Began # {} /\ (\A c \in Began : Validated(c)) /\ DistinctIds

End ==
  /\ status = "open"
  /\ IF Acceptable
     THEN /\ status' = "closing" /\ pending' = Began
          /\ UNCHANGED <<attempt, frames, choice, emitted, client, said>>
     ELSE Fail

Released(c) ==
  [t \in Tools |-> IF t \in Offered(c) THEN choice[c].tools[t] ELSE NoCall]

(* The terminal frames, in the order of the choices. *)
EmitTerminal(c) ==
  /\ status = "closing"
  /\ c \in pending /\ \A d \in pending : c <= d
  /\ client' = [client EXCEPT ![c].finish = choice[c].finish, ![c].calls = Released(c),
                              ![c].from = @ \cup {attempt}]
  /\ emitted' = TRUE
  /\ pending' = pending \ {c}
  /\ status' = IF pending' = {} THEN "done" ELSE "closing"
  /\ UNCHANGED <<attempt, frames, choice, said>>

Init ==
  /\ attempt = 1 /\ frames = 0
  /\ choice = [c \in Choices |-> NewChoice]
  /\ pending = {} /\ emitted = FALSE /\ status = "open"
  /\ client = [c \in Choices |->
       [text |-> 0, finish |-> NoFinish, calls |-> [t \in Tools |-> NoCall],
        from |-> {}]]
  /\ said = Nothing

Next ==
  \/ \E C \in SUBSET Choices \ {{}} : \E f \in [C -> Updates] : Feed(f)
  \/ Malformed \/ SoftRefusal \/ End
  \/ \E c \in Choices : EmitTerminal(c)

Spec == Init /\ [][Next]_vars

(***************************************************************************)
(* Properties.                                                             *)
(***************************************************************************)

TypeOK ==
  /\ attempt \in 1..MaxAttempts /\ frames \in 0..MaxFrames
  /\ \A c \in Choices :
       /\ choice[c].begun \in BOOLEAN
       /\ choice[c].finish \in Finishes \cup {NoFinish}
       /\ choice[c].tools \in [Tools -> Calls]
       /\ client[c].text \in 0..(MaxAttempts * MaxFrames)
       /\ client[c].finish \in Finishes \cup {NoFinish}
       /\ client[c].calls \in [Tools -> Calls]
       /\ client[c].from \subseteq 1..MaxAttempts
  /\ pending \subseteq Choices /\ emitted \in BOOLEAN
  /\ status \in {"open", "closing", "done", "failed"}
  /\ Cardinality(Began) <= MaxChoices
  /\ Cardinality(Held) <= MaxTools /\ PartsHeld <= MaxParts

(* stream_integrity.go:13: "Tool fragments never reach the host until the  *)
(* whole stream has been checked."  A call that the client holds was said   *)
(* in full, under one id, in a choice that upstream ended itself, and no   *)
(* choice of the answer was left unfinished.                               *)
ToolsWhole ==
  TypeOK /\ \A c \in Choices, t \in Tools :
    client[c].calls[t].begun =>
      /\ said[c].parts[t] = PartsOfCall
      /\ said[c].ids[t] \subseteq {client[c].calls[t].id}
      /\ said[c].finish \notin Cut \cup {NoFinish}
      /\ \A d \in Choices : said[d].begun => said[d].finish # NoFinish

(* A finished answer is the whole answer: for every choice its text, its    *)
(* finish reason, and its calls unless upstream cut the choice short.      *)
NothingLost ==
  status = "done" =>
    \A c \in Choices : said[c].begun =>
      /\ client[c].text = said[c].text
      /\ client[c].finish = said[c].finish
      /\ said[c].finish \notin Cut =>
           \A t \in said[c].tools : client[c].calls[t].begun
=============================================================================
