---------------------------- MODULE StreamProofs ----------------------------
(***************************************************************************)
(* Theorems about stream integrity, for any number of choices, tools, ids, *)
(* attempts and frames, and every limit: whatever upstream sends, in       *)
(* whatever order, the client holds whole tool calls or none, and an       *)
(* answer that ends well is the whole answer.                              *)
(*                                                                         *)
(* The code keeps of the stream what it needs, the properties speak of     *)
(* what upstream has said.  The invariant relates the two (Told), says     *)
(* what the client holds before and after the stream was validated (Sent,  *)
(* Settled), and that the limits hold of what is kept (WithinAll).         *)
(***************************************************************************)
EXTENDS StreamIntegrity, FiniteSetTheorems, TLAPS

Endings == Finishes \cup {NoFinish}

StreamTyped ==
  /\ attempt \in 1..MaxAttempts /\ frames \in 0..MaxFrames
  /\ choice \in [Choices -> [begun : BOOLEAN, finish : Endings, tools : [Tools -> Calls]]]
  /\ client \in [Choices -> [text : Nat, finish : Endings, calls : [Tools -> Calls],
                             from : SUBSET (1..MaxAttempts)]]
  /\ said \in [Choices -> [text : Nat, parts : [Tools -> Nat], ids : [Tools -> SUBSET Ids],
                           tools : SUBSET Tools, finish : Endings, begun : BOOLEAN]]
  /\ pending \in SUBSET Choices /\ emitted \in BOOLEAN
  /\ status \in {"open", "closing", "done", "failed"}

(* What the code keeps of a tool call is what upstream has said of it.     *)
CallTold(c, t) ==
  /\ said[c].parts[t] = choice[c].tools[t].parts
  /\ said[c].ids[t] = {choice[c].tools[t].id} \ {None}
  /\ t \in said[c].tools <=> choice[c].tools[t].begun
  /\ choice[c].tools[t].begun => choice[c].begun
  /\ ~choice[c].tools[t].begun => choice[c].tools[t] = NoCall

(* So is what it keeps of a choice; its text it has passed on at once.     *)
Told(c) ==
  /\ said[c].begun = choice[c].begun
  /\ said[c].finish = choice[c].finish
  /\ said[c].text = client[c].text /\ said[c].text <= frames
  /\ \A t \in Tools : CallTold(c, t)

(* Before anything was emitted there is nothing to take back.              *)
Silent == ~emitted => \A c \in Choices : client[c].text = 0

(* A call is with the client only once all of the answer was acceptable,   *)
(* and then as it was held.                                                *)
Sent(c) ==
  \A t \in Tools : client[c].calls[t].begun =>
    /\ status # "open" /\ Acceptable /\ t \in Offered(c)
    /\ client[c].calls[t] = choice[c].tools[t]

(* While the terminal frames go out, the client has its own of each choice *)
(* that is not pending.                                                    *)
Settled ==
  /\ status \in {"closing", "done"} =>
       /\ Acceptable
       /\ \A c \in Began \ pending :
            client[c].finish = choice[c].finish /\ client[c].calls = Released(c)
  /\ status = "done" => pending = {}

WithinAll ==
  /\ Cardinality(Began) <= MaxChoices
  /\ Cardinality(Held) <= MaxTools
  /\ PartsHeld <= MaxParts

StreamInv ==
  /\ StreamTyped /\ Silent /\ Settled /\ WithinAll
  /\ \A c \in Choices : Told(c) /\ Sent(c)

(* The initial values are what they look like.                             *)
LEMMA NothingYet ==
  /\ NoCall \in Calls
  /\ NewChoice \in [begun : BOOLEAN, finish : Endings, tools : [Tools -> Calls]]
  /\ Nothing \in [Choices -> [text : Nat, parts : [Tools -> Nat], ids : [Tools -> SUBSET Ids],
                              tools : SUBSET Tools, finish : Endings, begun : BOOLEAN]]
<1>1. NoCall \in Calls
  BY StreamIntegrityAssumption DEF NoCall, Calls
<1>2. NewChoice \in [begun : BOOLEAN, finish : Endings, tools : [Tools -> Calls]]
  BY <1>1 DEF NewChoice, Endings
<1>3. \A c \in Choices :
        Nothing[c] \in [text : Nat, parts : [Tools -> Nat], ids : [Tools -> SUBSET Ids],
                        tools : SUBSET Tools, finish : Endings, begun : BOOLEAN]
  BY DEF Nothing, Endings
<1>4. Nothing \in [Choices -> [text : Nat, parts : [Tools -> Nat], ids : [Tools -> SUBSET Ids],
                               tools : SUBSET Tools, finish : Endings, begun : BOOLEAN]]
  BY <1>3 DEF Nothing
<1> QED
  BY <1>1, <1>2, <1>4

(* A set of what was there and what is new is no larger than both.         *)
LEMMA Growth ==
  ASSUME NEW S, IsFiniteSet(S), NEW T, IsFiniteSet(T), NEW U \in SUBSET (S \cup T)
  PROVE  /\ IsFiniteSet(U) /\ Cardinality(U) \in Nat
         /\ Cardinality(S) \in Nat /\ Cardinality(T) \in Nat
         /\ Cardinality(U) <= Cardinality(S) + Cardinality(T)
<1>1. IsFiniteSet(S \cup T) /\ IsFiniteSet(S \cap T)
  BY FS_Union, FS_Subset
<1>2. /\ Cardinality(S) \in Nat /\ Cardinality(T) \in Nat
      /\ Cardinality(S \cap T) \in Nat /\ Cardinality(S \cup T) \in Nat
  BY <1>1, FS_CardinalityType
<1>3. Cardinality(S \cup T) = Cardinality(S) + Cardinality(T) - Cardinality(S \cap T)
  BY FS_Union
<1>4. IsFiniteSet(U) /\ Cardinality(U) <= Cardinality(S \cup T)
  BY <1>1, FS_Subset
<1>5. Cardinality(U) \in Nat
  BY <1>4, FS_CardinalityType
<1> QED
  BY <1>2, <1>3, <1>4, <1>5

(* What is held can be counted.                                            *)
LEMMA Counted ==
  /\ IsFiniteSet(Began) /\ IsFiniteSet(Held) /\ IsFiniteSet(Fragments)
  /\ Cardinality(Began) \in Nat /\ Cardinality(Held) \in Nat /\ PartsHeld \in Nat
<1>1. IsFiniteSet(Choices) /\ IsFiniteSet(Choices \X Tools)
  BY StreamIntegrityAssumption, FS_Product
<1>2. IsFiniteSet(Began) /\ IsFiniteSet(Held)
  <2>1. Began \in SUBSET Choices /\ Held \in SUBSET (Choices \X Tools)
    BY DEF Began, Held
  <2> QED
    BY <1>1, <2>1, FS_Subset
<1>3. IsFiniteSet(Held \X (1..MaxParts))
  <2>1. MaxParts \in Int /\ 1 \in Int
    BY StreamIntegrityAssumption
  <2>2. IsFiniteSet(1..MaxParts)
    BY <2>1, FS_Interval
  <2> QED
    BY <1>2, <2>2, FS_Product
<1>4. IsFiniteSet(Fragments)
  <2>1. Fragments \in SUBSET (Held \X (1..MaxParts))
    BY DEF Fragments
  <2> QED
    BY <1>3, <2>1, FS_Subset
<1> QED
  BY <1>2, <1>4, FS_CardinalityType DEF PartsHeld

(***************************************************************************)
(* feed.                                                                   *)
(***************************************************************************)

(* A fragment belongs to a tool call, and so does an id.                   *)
LEMMA UpdateTool ==
  ASSUME NEW u \in Updates
  PROVE  /\ u.part => u.tool \in Tools
         /\ u.id # None => u.tool \in Tools
         /\ u.tool # None => u.tool \in Tools
         /\ u.finish \in Endings /\ u.id \in Ids \cup {None}
         /\ u.part \in BOOLEAN /\ u.text \in BOOLEAN
BY DEF Updates, Endings

(* What the frame f of the choices C does, once it is accepted.            *)
Fed(C, f) ==
  /\ Accepts(f) /\ status = "open" /\ frames < MaxFrames
  /\ choice' = [c \in Choices |-> IF c \in C THEN Absorbed(c, f[c]) ELSE choice[c]]
  /\ said' = [c \in Choices |-> IF c \in C THEN SaidMore(c, f[c]) ELSE said[c]]
  /\ client' = SentText(f)
  /\ emitted' = (emitted \/ Visible(f) # {})
  /\ frames' = frames + 1
  /\ attempt' = attempt /\ pending' = pending /\ status' = status

(* The calls of a choice after one update of it.                           *)
LEMMA AbsorbedCalls ==
  ASSUME StreamTyped, NEW c \in Choices, NEW u \in Updates, NEW t \in Tools
  PROVE  Absorbed(c, u).tools[t] =
           IF t = u.tool THEN Merged(choice[c].tools[t], u) ELSE choice[c].tools[t]
<1>1. DOMAIN choice[c].tools = Tools
  BY DEF StreamTyped
<1>2. None \notin Tools
  BY StreamIntegrityAssumption
<1> QED
  BY <1>1, <1>2 DEF Absorbed

(* Every fragment that is kept adds to those that the limit counts.        *)
LEMMA PartsCounted ==
  ASSUME StreamTyped, NEW c \in Choices, NEW t \in Tools, CallTold(c, t)
  PROVE  choice[c].tools[t].parts \in 0..MaxParts /\ choice[c].tools[t].parts <= PartsHeld
<1> DEFINE n == choice[c].tools[t].parts
<1>1. n \in 0..MaxParts
  BY DEF StreamTyped, Calls
<1>2. MaxParts \in Nat /\ PartsHeld \in Nat
  BY StreamIntegrityAssumption, Counted
<1>3. CASE n = 0
  BY <1>1, <1>2, <1>3
<1>4. CASE n # 0
  <2>1. <<c, t>> \in Held
    BY <1>4 DEF CallTold, NoCall, Held
  <2> DEFINE own == {<<c, t>>} \X (1..n)
  <2>2. own \in SUBSET Fragments
    BY <1>1, <1>2, <2>1 DEF Fragments
  <2>3. Cardinality(own) <= PartsHeld
    BY <2>2, Counted, FS_Subset DEF PartsHeld
  <2>4. /\ IsFiniteSet({<<c, t>>}) /\ Cardinality({<<c, t>>}) = 1
        /\ IsFiniteSet(1..n) /\ Cardinality(1..n) = n
    <3> HIDE DEF n
    <3>1. 1 \in Int /\ n \in Int /\ ~(1 > n) /\ n - 1 + 1 = n
      BY <1>1, <1>2, <1>4
    <3>2. IsFiniteSet(1..n) /\ Cardinality(1..n) = n
      BY <3>1, FS_Interval
    <3>3. IsFiniteSet({<<c, t>>}) /\ Cardinality({<<c, t>>}) = 1
      BY FS_Singleton, Zenon
    <3> QED
      BY <3>2, <3>3
  <2>5. Cardinality(own) = 1 * n
    BY <2>4, FS_Product
  <2> QED
    BY <1>1, <1>2, <2>3, <2>5
<1> QED
  BY <1>3, <1>4

(* The choices that bring a fragment, and what becomes of a call.          *)
Bringing(C, f) == {c \in C : f[c].part}

(* A call that gains a fragment stays within the limit.                    *)
LEMMA RoomForPart ==
  ASSUME StreamInv, NEW C \in SUBSET Choices, NEW f \in [C -> Updates], Accepts(f),
         NEW c \in C, f[c].part
  PROVE  choice[c].tools[f[c].tool].parts + 1 \in 0..MaxParts
<1> DEFINE t == f[c].tool
<1>1. t \in Tools /\ c \in Choices
  BY UpdateTool
<1>2. CallTold(c, t)
  BY <1>1 DEF StreamInv, Told
<1>3. choice[c].tools[t].parts \in 0..MaxParts /\ choice[c].tools[t].parts <= PartsHeld
  BY <1>1, <1>2, PartsCounted DEF StreamInv
<1>4. DOMAIN f = C
  OBVIOUS
<1>5. PartsHeld + Cardinality(Bringing(C, f)) <= MaxParts
  BY <1>4 DEF Accepts, WithinLimits, Bringing
<1>6. Cardinality(Bringing(C, f)) >= 1
  <2>1. IsFiniteSet(Bringing(C, f)) /\ Bringing(C, f) # {}
    <3>1. Bringing(C, f) \in SUBSET Choices /\ c \in Bringing(C, f)
      BY DEF Bringing
    <3> QED
      BY <3>1, StreamIntegrityAssumption, FS_Subset
  <2>2. Cardinality(Bringing(C, f)) # 0 /\ Cardinality(Bringing(C, f)) \in Nat
    BY <2>1, FS_EmptySet, FS_CardinalityType
  <2> QED
    BY <2>2
<1>7. Cardinality(Bringing(C, f)) \in Nat
  <2>1. Bringing(C, f) \in SUBSET Choices
    BY DEF Bringing
  <2> QED
    BY <2>1, StreamIntegrityAssumption, FS_Subset, FS_CardinalityType
<1>8. MaxParts \in Nat /\ PartsHeld \in Nat
  BY StreamIntegrityAssumption, Counted
<1> HIDE DEF t
<1>9. choice[c].tools[t].parts + 1 \in 0..MaxParts
  BY <1>3, <1>5, <1>6, <1>7, <1>8
<1> QED
  BY <1>9 DEF t

(* The types, of the code's state first.                                   *)
LEMMA ChoiceTyped ==
  ASSUME StreamInv, NEW C \in SUBSET Choices, NEW f \in [C -> Updates], Fed(C, f)
  PROVE  choice' \in [Choices -> [begun : BOOLEAN, finish : Endings, tools : [Tools -> Calls]]]
<1>1. ASSUME NEW c \in C
      PROVE  Absorbed(c, f[c]) \in [begun : BOOLEAN, finish : Endings, tools : [Tools -> Calls]]
  <2>1. c \in Choices /\ f[c] \in Updates
    OBVIOUS
  <2>2. ASSUME NEW t \in Tools
        PROVE  Absorbed(c, f[c]).tools[t] \in Calls
    <3>1. choice[c].tools[t] \in Calls
      BY <2>1 DEF StreamInv, StreamTyped
    <3>2. CASE t # f[c].tool
      BY <2>1, <3>1, <3>2, AbsorbedCalls DEF StreamInv
    <3>3. CASE t = f[c].tool
      <4>1. Absorbed(c, f[c]).tools[t] = Merged(choice[c].tools[t], f[c])
        BY <2>1, <3>3, AbsorbedCalls DEF StreamInv
      <4>2. f[c].part => choice[c].tools[t].parts + 1 \in 0..MaxParts
        BY <3>3, RoomForPart DEF Fed
      <4>3. f[c].id \in Ids \cup {None} /\ f[c].part \in BOOLEAN
        BY <2>1, UpdateTool
      <4>4. choice[c].tools[t].parts \in 0..MaxParts
        BY <3>1 DEF Calls
      <4>5. choice[c].tools[t].parts + (IF f[c].part THEN 1 ELSE 0) \in 0..MaxParts
        BY <4>2, <4>4
      <4>6. Merged(choice[c].tools[t], f[c]) \in Calls
        BY <3>1, <4>3, <4>5 DEF Merged, Calls
      <4> QED
        BY <4>1, <4>6
    <3> QED
      BY <3>2, <3>3
  <2>3. Absorbed(c, f[c]).tools \in [Tools -> Calls]
    <3>1. choice[c].tools \in [Tools -> Calls]
      BY <2>1 DEF StreamInv, StreamTyped
    <3>2. Absorbed(c, f[c]).tools = [t \in Tools |-> Absorbed(c, f[c]).tools[t]]
      BY <3>1 DEF Absorbed
    <3> QED
      BY <2>2, <3>2
  <2>4. f[c].finish \in Endings
    BY <2>1, UpdateTool
  <2> QED
    BY <2>3, <2>4 DEF Absorbed
<1>2. \A c \in Choices :
        choice[c] \in [begun : BOOLEAN, finish : Endings, tools : [Tools -> Calls]]
  BY DEF StreamInv, StreamTyped
<1>3. choice' = [c \in Choices |-> IF c \in C THEN Absorbed(c, f[c]) ELSE choice[c]]
  BY DEF Fed
<1> QED
  BY <1>1, <1>2, <1>3

(* What upstream has said more of a call.                                  *)
LEMMA SaidCalls ==
  ASSUME StreamTyped, NEW c \in Choices, NEW u \in Updates, NEW t \in Tools
  PROVE  /\ SaidMore(c, u).parts[t] =
              said[c].parts[t] + (IF u.part /\ t = u.tool THEN 1 ELSE 0)
         /\ SaidMore(c, u).ids[t] =
              said[c].ids[t] \cup (IF t = u.tool THEN {u.id} \ {None} ELSE {})
         /\ t \in SaidMore(c, u).tools <=> t \in said[c].tools \/ t = u.tool
<1>1. said[c].parts \in [Tools -> Nat] /\ said[c].ids \in [Tools -> SUBSET Ids]
  BY DEF StreamTyped
<1>2. None \notin Tools
  BY StreamIntegrityAssumption
<1>3. /\ u.part => u.tool \in Tools
      /\ u.id # None => u.tool \in Tools
  BY UpdateTool
<1>4. SaidMore(c, u).parts[t] = said[c].parts[t] + (IF u.part /\ t = u.tool THEN 1 ELSE 0)
  <2>1. said[c].parts[t] \in Nat
    BY <1>1
  <2> QED
    BY <1>1, <1>3, <2>1 DEF SaidMore
<1>5. SaidMore(c, u).ids[t] =
        said[c].ids[t] \cup (IF t = u.tool THEN {u.id} \ {None} ELSE {})
  BY <1>1, <1>3 DEF SaidMore
<1>6. t \in SaidMore(c, u).tools <=> t \in said[c].tools \/ t = u.tool
  BY <1>2 DEF SaidMore
<1> QED
  BY <1>4, <1>5, <1>6

LEMMA SaidTyped ==
  ASSUME StreamTyped, NEW C \in SUBSET Choices, NEW f \in [C -> Updates], Fed(C, f)
  PROVE  said' \in [Choices -> [text : Nat, parts : [Tools -> Nat], ids : [Tools -> SUBSET Ids],
                                tools : SUBSET Tools, finish : Endings, begun : BOOLEAN]]
<1>1. ASSUME NEW c \in C
      PROVE  SaidMore(c, f[c]) \in [text : Nat, parts : [Tools -> Nat],
                                    ids : [Tools -> SUBSET Ids], tools : SUBSET Tools,
                                    finish : Endings, begun : BOOLEAN]
  <2> DEFINE u == f[c]
  <2>1. /\ said[c].text \in Nat /\ said[c].parts \in [Tools -> Nat]
        /\ said[c].ids \in [Tools -> SUBSET Ids] /\ said[c].tools \in SUBSET Tools
        /\ said[c].finish \in Endings
    BY DEF StreamTyped
  <2>2. /\ u.part => u.tool \in Tools
        /\ u.id # None => u.tool \in Tools
        /\ u.tool # None => u.tool \in Tools
        /\ u.finish \in Endings /\ u.id \in Ids \cup {None}
    BY UpdateTool
  <2> HIDE DEF u
  <2>3. SaidMore(c, u).text \in Nat
    BY <2>1 DEF SaidMore
  <2>4. SaidMore(c, u).parts \in [Tools -> Nat]
    BY <2>1, <2>2 DEF SaidMore
  <2>5. SaidMore(c, u).ids \in [Tools -> SUBSET Ids]
    BY <2>1, <2>2 DEF SaidMore
  <2>6. SaidMore(c, u).tools \in SUBSET Tools
    BY <2>1, <2>2 DEF SaidMore
  <2>7. SaidMore(c, u).finish \in Endings
    BY <2>1, <2>2 DEF SaidMore
  <2>8. SaidMore(c, u) \in [text : Nat, parts : [Tools -> Nat], ids : [Tools -> SUBSET Ids],
                            tools : SUBSET Tools, finish : Endings, begun : BOOLEAN]
    BY <2>3, <2>4, <2>5, <2>6, <2>7 DEF SaidMore
  <2> QED
    BY <2>8 DEF u
<1>2. \A c \in Choices :
        said[c] \in [text : Nat, parts : [Tools -> Nat], ids : [Tools -> SUBSET Ids],
                     tools : SUBSET Tools, finish : Endings, begun : BOOLEAN]
  BY DEF StreamTyped
<1>3. said' = [c \in Choices |-> IF c \in C THEN SaidMore(c, f[c]) ELSE said[c]]
  BY DEF Fed
<1> QED
  BY <1>1, <1>2, <1>3

(* The client gets the text of a frame and nothing else of it.             *)
LEMMA TextOnly ==
  ASSUME StreamTyped, NEW C \in SUBSET Choices, NEW f \in [C -> Updates], Fed(C, f)
  PROVE  /\ client' \in [Choices -> [text : Nat, finish : Endings, calls : [Tools -> Calls],
                                     from : SUBSET (1..MaxAttempts)]]
         /\ \A c \in Choices :
              /\ client'[c].text =
                   client[c].text + (IF c \in C /\ f[c].text THEN 1 ELSE 0)
              /\ client'[c].finish = client[c].finish
              /\ client'[c].calls = client[c].calls
<1> DEFINE Records == [text : Nat, finish : Endings, calls : [Tools -> Calls],
                       from : SUBSET (1..MaxAttempts)]
<1>1. client' = [c \in Choices |-> IF c \in Visible(f)
                                   THEN [client[c] EXCEPT !.text = @ + 1,
                                                          !.from = @ \cup {attempt}]
                                   ELSE client[c]]
  BY DEF Fed, SentText
<1>2. \A c \in Choices : client[c] \in Records
  BY DEF StreamTyped
<1>3. \A c \in Choices : c \in Visible(f) <=> c \in C /\ f[c].text
  BY DEF Visible
<1>4. attempt \in 1..MaxAttempts
  BY DEF StreamTyped
<1>5. ASSUME NEW c \in Choices
      PROVE  /\ client'[c] \in Records
             /\ client'[c].text = client[c].text + (IF c \in C /\ f[c].text THEN 1 ELSE 0)
             /\ client'[c].finish = client[c].finish
             /\ client'[c].calls = client[c].calls
  <2>1. client[c] \in Records
    BY <1>2
  <2>2. CASE c \in Visible(f)
    <3>1. client'[c] = [client[c] EXCEPT !.text = @ + 1, !.from = @ \cup {attempt}]
      BY <1>1, <2>2
    <3>2. /\ client'[c].text = client[c].text + 1
          /\ client'[c].finish = client[c].finish
          /\ client'[c].calls = client[c].calls
      BY <2>1, <3>1
    <3>3. client'[c] \in Records
      <4>1. client[c].text + 1 \in Nat
        BY <2>1
      <4>2. client[c].from \cup {attempt} \in SUBSET (1..MaxAttempts)
        BY <1>4, <2>1
      <4>3. client'[c] = [text |-> client[c].text + 1, finish |-> client[c].finish,
                          calls |-> client[c].calls, from |-> client[c].from \cup {attempt}]
        BY <2>1, <3>1
      <4> QED
        BY <2>1, <4>1, <4>2, <4>3
    <3> QED
      BY <1>3, <2>2, <3>2, <3>3
  <2>3. CASE c \notin Visible(f)
    <3>1. client'[c] = client[c]
      BY <1>1, <2>3
    <3>2. client[c].text + 0 = client[c].text
      BY <2>1
    <3> QED
      BY <1>3, <2>1, <2>3, <3>1, <3>2
  <2> QED
    BY <2>2, <2>3
<1>6. client' \in [Choices -> Records]
  <2>1. client' = [c \in Choices |-> client'[c]]
    BY <1>1
  <2> HIDE DEF Records
  <2> QED
    BY <1>5, <2>1
<1> QED
  BY <1>5, <1>6

(* The code goes on keeping what upstream says of a call.                  *)
LEMMA CallToldOn ==
  ASSUME StreamInv, NEW C \in SUBSET Choices, NEW f \in [C -> Updates], Fed(C, f),
         NEW c \in Choices, NEW t \in Tools
  PROVE  CallTold(c, t)'
<1>1. CallTold(c, t)
  BY DEF StreamInv, Told
<1>2. CASE c \notin C
  <2>1. choice'[c] = choice[c] /\ said'[c] = said[c]
    BY <1>2 DEF Fed
  <2> QED
    BY <1>1, <2>1 DEF CallTold
<1>3. CASE c \in C
  <2>1. PICK u \in Updates : u = f[c]
    BY <1>3
  <2>2. choice'[c] = Absorbed(c, u) /\ said'[c] = SaidMore(c, u)
    BY <1>3, <2>1 DEF Fed
  <2>3. choice'[c].tools[t] =
          IF t = u.tool THEN Merged(choice[c].tools[t], u) ELSE choice[c].tools[t]
    BY <2>2, AbsorbedCalls DEF StreamInv
  <2>4. /\ said'[c].parts[t] = said[c].parts[t] + (IF u.part /\ t = u.tool THEN 1 ELSE 0)
        /\ said'[c].ids[t] = said[c].ids[t] \cup (IF t = u.tool THEN {u.id} \ {None} ELSE {})
        /\ t \in said'[c].tools <=> t \in said[c].tools \/ t = u.tool
    BY <2>2, SaidCalls DEF StreamInv
  <2>5. choice'[c].begun = TRUE
    BY <2>2 DEF Absorbed
  <2>6. SameIdentity(c, u)
    BY <1>3, <2>1 DEF Fed, Accepts
  <2>7. /\ said[c].parts[t] \in Nat /\ choice[c].tools[t].parts \in Nat
        /\ choice[c].tools[t].begun \in BOOLEAN
    BY DEF StreamInv, StreamTyped, Calls
  <2>8. CASE t # u.tool
    <3>1. choice'[c].tools[t] = choice[c].tools[t]
      BY <2>3, <2>8
    <3>2. /\ said'[c].parts[t] = said[c].parts[t] /\ said'[c].ids[t] = said[c].ids[t]
          /\ t \in said'[c].tools <=> t \in said[c].tools
      BY <2>4, <2>7, <2>8
    <3> QED
      BY <1>1, <2>5, <3>1, <3>2 DEF CallTold
  <2>9. CASE t = u.tool
    <3>1. choice'[c].tools[t] = Merged(choice[c].tools[t], u)
      BY <2>3, <2>9
    <3>2. said'[c].parts[t] = choice'[c].tools[t].parts
      BY <1>1, <2>4, <2>7, <2>9, <3>1 DEF CallTold, Merged
    <3>3. said'[c].ids[t] = {choice'[c].tools[t].id} \ {None}
      <4>1. u.id # None => choice[c].tools[t].id \in {None, u.id}
        BY <2>6, <2>9, UpdateTool, StreamIntegrityAssumption DEF SameIdentity
      <4>2. said'[c].ids[t] = ({choice[c].tools[t].id} \ {None}) \cup ({u.id} \ {None})
        BY <1>1, <2>4, <2>9 DEF CallTold
      <4>3. choice'[c].tools[t].id =
              IF choice[c].tools[t].id = None THEN u.id ELSE choice[c].tools[t].id
        BY <3>1 DEF Merged
      <4> QED
        BY <4>1, <4>2, <4>3
    <3>4. choice'[c].tools[t].begun = TRUE /\ t \in said'[c].tools
      BY <2>4, <2>9, <3>1 DEF Merged
    <3> QED
      BY <2>5, <3>2, <3>3, <3>4 DEF CallTold
  <2> QED
    BY <2>8, <2>9
<1> QED
  BY <1>2, <1>3

LEMMA ToldOn ==
  ASSUME StreamInv, NEW C \in SUBSET Choices, NEW f \in [C -> Updates], Fed(C, f),
         NEW c \in Choices
  PROVE  Told(c)'
<1>1. Told(c) /\ frames \in Nat
  BY StreamIntegrityAssumption DEF StreamInv, StreamTyped
<1>2. \A t \in Tools : CallTold(c, t)'
  BY CallToldOn
<1>3. client'[c].text = client[c].text + (IF c \in C /\ f[c].text THEN 1 ELSE 0)
  BY TextOnly DEF StreamInv
<1>4. frames' = frames + 1 /\ said[c].text \in Nat
  BY DEF Fed, StreamInv, StreamTyped
<1>5. CASE c \notin C
  <2>1. choice'[c] = choice[c] /\ said'[c] = said[c]
    BY <1>5 DEF Fed
  <2> QED
    BY <1>1, <1>2, <1>3, <1>4, <1>5, <2>1 DEF Told
<1>6. CASE c \in C
  <2>1. PICK u \in Updates : u = f[c]
    BY <1>6
  <2>2. choice'[c] = Absorbed(c, u) /\ said'[c] = SaidMore(c, u)
    BY <1>6, <2>1 DEF Fed
  <2>3. NotFinished(c)
    BY <1>6 DEF Fed, Accepts
  <2>4. said'[c].begun = choice'[c].begun
    BY <2>2 DEF Absorbed, SaidMore
  <2>5. said'[c].finish = choice'[c].finish
    BY <1>1, <2>2, <2>3 DEF Absorbed, SaidMore, Told, NotFinished
  <2>6. said'[c].text = said[c].text + (IF u.text THEN 1 ELSE 0)
    BY <2>2 DEF SaidMore
  <2>7. said'[c].text = client'[c].text /\ said'[c].text <= frames'
    BY <1>1, <1>3, <1>4, <1>6, <2>1, <2>6 DEF Told
  <2> QED
    BY <1>2, <2>4, <2>5, <2>7 DEF Told
<1> QED
  BY <1>5, <1>6

(* The calls that a frame opens, and the fragments it brings.              *)
Opening(C, f) == {c \in C : f[c].tool # None /\ ~choice[c].tools[f[c].tool].begun}
Opened(C, f) == {<<c, f[c].tool>> : c \in Opening(C, f)}
Brought(C, f) ==
  {<<<<c, f[c].tool>>, choice[c].tools[f[c].tool].parts + 1>> : c \in Bringing(C, f)}

LEMMA OnePerChoice ==
  ASSUME NEW C \in SUBSET Choices, NEW f \in [C -> Updates]
  PROVE  /\ IsFiniteSet(Opened(C, f))
         /\ Cardinality(Opened(C, f)) <= Cardinality(Opening(C, f))
         /\ IsFiniteSet(Brought(C, f))
         /\ Cardinality(Brought(C, f)) <= Cardinality(Bringing(C, f))
<1>1. IsFiniteSet(Opening(C, f)) /\ IsFiniteSet(Bringing(C, f))
  <2>1. Opening(C, f) \in SUBSET Choices /\ Bringing(C, f) \in SUBSET Choices
    BY DEF Opening, Bringing
  <2> QED
    BY <2>1, StreamIntegrityAssumption, FS_Subset
<1>2. [c \in Opening(C, f) |-> <<c, f[c].tool>>] \in Surjection(Opening(C, f), Opened(C, f))
  BY DEF Opened, Surjection
<1>3. [c \in Bringing(C, f) |->
         <<<<c, f[c].tool>>, choice[c].tools[f[c].tool].parts + 1>>]
           \in Surjection(Bringing(C, f), Brought(C, f))
  BY DEF Brought, Surjection
<1>4. IsFiniteSet(Opened(C, f)) /\ Cardinality(Opened(C, f)) <= Cardinality(Opening(C, f))
  BY <1>1, <1>2, FS_Surjection
<1>5. IsFiniteSet(Brought(C, f)) /\ Cardinality(Brought(C, f)) <= Cardinality(Bringing(C, f))
  BY <1>1, <1>3, FS_Surjection
<1> QED
  BY <1>4, <1>5

(* The calls of a choice after a frame.                                    *)
LEMMA CallsAfter ==
  ASSUME StreamInv, NEW C \in SUBSET Choices, NEW f \in [C -> Updates], Fed(C, f),
         NEW c \in Choices, NEW t \in Tools
  PROVE  choice'[c].tools[t] =
           IF c \in C /\ t = f[c].tool THEN Merged(choice[c].tools[t], f[c])
           ELSE choice[c].tools[t]
<1>1. CASE c \notin C
  BY <1>1 DEF Fed
<1>2. CASE c \in C
  <2>1. f[c] \in Updates
    BY <1>2
  <2>2. choice'[c] = Absorbed(c, f[c])
    BY <1>2 DEF Fed
  <2> QED
    BY <1>2, <2>1, <2>2, AbsorbedCalls DEF StreamInv
<1> QED
  BY <1>1, <1>2

LEMMA HeldGrows ==
  ASSUME StreamInv, NEW C \in SUBSET Choices, NEW f \in [C -> Updates], Fed(C, f)
  PROVE  Held' \subseteq Held \cup Opened(C, f)
<1> SUFFICES ASSUME NEW c \in Choices, NEW t \in Tools, choice'[c].tools[t].begun
             PROVE  <<c, t>> \in Held \cup Opened(C, f)
  BY DEF Held
<1>1. CASE choice[c].tools[t].begun
  BY <1>1 DEF Held
<1>2. CASE ~choice[c].tools[t].begun
  <2>1. c \in C /\ t = f[c].tool
    BY <1>2, CallsAfter
  <2>2. f[c].tool # None
    BY <2>1, StreamIntegrityAssumption
  <2> QED
    BY <1>2, <2>1, <2>2 DEF Opened, Opening
<1> QED
  BY <1>1, <1>2

LEMMA FragmentsGrow ==
  ASSUME StreamInv, NEW C \in SUBSET Choices, NEW f \in [C -> Updates], Fed(C, f)
  PROVE  Fragments' \subseteq Fragments \cup Brought(C, f)
<1> SUFFICES ASSUME NEW c \in Choices, NEW t \in Tools, NEW n \in 1..MaxParts,
                    n <= choice'[c].tools[t].parts
             PROVE  <<<<c, t>>, n>> \in Fragments \cup Brought(C, f)
  BY DEF Fragments, Held
<1> DEFINE old == choice[c].tools[t].parts
<1>1. n \in Nat /\ n >= 1 /\ old \in Nat
  <2>1. old \in 0..MaxParts /\ MaxParts \in Nat
    BY StreamIntegrityAssumption DEF StreamInv, StreamTyped, Calls
  <2> QED
    BY <2>1
<1>2. CallTold(c, t)
  BY DEF StreamInv, Told
<1>3. CASE n <= old
  <2>1. choice[c].tools[t].begun
    BY <1>1, <1>2, <1>3 DEF CallTold, NoCall
  <2> QED
    BY <1>3, <2>1 DEF Fragments, Held
<1>4. CASE ~(n <= old)
  <2>1. c \in C /\ t = f[c].tool /\ choice'[c].tools[t] = Merged(choice[c].tools[t], f[c])
    BY <1>4, CallsAfter
  <2>2. choice'[c].tools[t].parts = old + (IF f[c].part THEN 1 ELSE 0)
    BY <2>1 DEF Merged
  <2>3. f[c].part /\ n = old + 1
    BY <1>1, <1>4, <2>2
  <2> QED
    BY <2>1, <2>3 DEF Brought, Bringing
<1> QED
  BY <1>3, <1>4

(* An accepted frame keeps all that is held within the limits.             *)
LEMMA LimitsKept ==
  ASSUME StreamInv, NEW C \in SUBSET Choices, NEW f \in [C -> Updates], Fed(C, f)
  PROVE  WithinAll'
<1>1. DOMAIN f = C /\ WithinAll /\ {MaxChoices, MaxTools, MaxParts} \subseteq Nat
  BY StreamIntegrityAssumption DEF StreamInv
<1>2. Cardinality(Began') <= MaxChoices
  <2> DEFINE new == {c \in C : ~choice[c].begun}
  <2>1. Began' \in SUBSET (Began \cup new)
    BY DEF Began, Fed
  <2>2. IsFiniteSet(new)
    BY StreamIntegrityAssumption, FS_Subset
  <2>3. new # {} => Cardinality(Began) + Cardinality(new) <= MaxChoices
    BY <1>1 DEF Fed, Accepts, WithinLimits
  <2>4. /\ Cardinality(Began') \in Nat /\ Cardinality(Began) \in Nat /\ Cardinality(new) \in Nat
        /\ Cardinality(Began') <= Cardinality(Began) + Cardinality(new)
    <3> HIDE DEF new
    <3> QED
      BY <2>1, <2>2, Counted, Growth
  <2>5. new = {} => Cardinality(new) = 0
    BY FS_EmptySet
  <2> HIDE DEF new
  <2> QED
    BY <1>1, <2>3, <2>4, <2>5 DEF WithinAll
<1>3. Cardinality(Held') <= MaxTools
  <2>1. Opening(C, f) # {} => Cardinality(Held) + Cardinality(Opening(C, f)) <= MaxTools
    BY <1>1 DEF Fed, Accepts, WithinLimits, Opening
  <2>2. /\ IsFiniteSet(Opened(C, f))
        /\ Cardinality(Opened(C, f)) <= Cardinality(Opening(C, f))
    BY OnePerChoice
  <2>3. /\ Cardinality(Held') \in Nat /\ Cardinality(Held) \in Nat
        /\ Cardinality(Opened(C, f)) \in Nat
        /\ Cardinality(Held') <= Cardinality(Held) + Cardinality(Opened(C, f))
    BY <2>2, HeldGrows, Counted, Growth
  <2>4. Cardinality(Opening(C, f)) \in Nat
    <3>1. Opening(C, f) \in SUBSET Choices
      BY DEF Opening
    <3> QED
      BY <3>1, StreamIntegrityAssumption, FS_Subset, FS_CardinalityType
  <2>5. Opening(C, f) = {} => Cardinality(Opening(C, f)) = 0
    BY FS_EmptySet
  <2> QED
    BY <1>1, <2>1, <2>2, <2>3, <2>4, <2>5 DEF WithinAll
<1>4. PartsHeld' <= MaxParts
  <2>1. PartsHeld + Cardinality(Bringing(C, f)) <= MaxParts
    BY <1>1 DEF Fed, Accepts, WithinLimits, Bringing
  <2>2. /\ IsFiniteSet(Brought(C, f))
        /\ Cardinality(Brought(C, f)) <= Cardinality(Bringing(C, f))
    BY OnePerChoice
  <2>3. /\ Cardinality(Fragments') \in Nat /\ Cardinality(Fragments) \in Nat
        /\ Cardinality(Brought(C, f)) \in Nat
        /\ Cardinality(Fragments') <= Cardinality(Fragments) + Cardinality(Brought(C, f))
    BY <2>2, FragmentsGrow, Counted, Growth
  <2>4. Cardinality(Bringing(C, f)) \in Nat
    <3>1. Bringing(C, f) \in SUBSET Choices
      BY DEF Bringing
    <3> QED
      BY <3>1, StreamIntegrityAssumption, FS_Subset, FS_CardinalityType
  <2> QED
    BY <1>1, <2>1, <2>2, <2>3, <2>4 DEF PartsHeld
<1> QED
  BY <1>2, <1>3, <1>4 DEF WithinAll

LEMMA FedKeeps ==
  ASSUME StreamInv, NEW C \in SUBSET Choices, NEW f \in [C -> Updates], Fed(C, f)
  PROVE  StreamInv'
<1>1. StreamTyped /\ Silent
  BY DEF StreamInv
<1>2. StreamTyped'
  <2>1. attempt' \in 1..MaxAttempts
    BY <1>1 DEF StreamTyped, Fed
  <2>2. frames' \in 0..MaxFrames
    BY <1>1, StreamIntegrityAssumption DEF StreamTyped, Fed
  <2>3. pending' \in SUBSET Choices /\ status' \in {"open", "closing", "done", "failed"}
    BY <1>1 DEF StreamTyped, Fed
  <2>4. emitted' \in BOOLEAN
    BY <1>1 DEF StreamTyped, Fed
  <2> QED
    BY <1>1, <2>1, <2>2, <2>3, <2>4, ChoiceTyped, SaidTyped, TextOnly DEF StreamTyped
<1>3. Silent'
  <2> SUFFICES ASSUME ~emitted', NEW c \in Choices PROVE client'[c].text = 0
    BY DEF Silent
  <2>1. ~emitted /\ ~(c \in C /\ f[c].text)
    BY DEF Fed, Visible
  <2>2. client'[c].text = client[c].text + 0 /\ client[c].text = 0
    BY <1>1, <2>1, TextOnly DEF Silent
  <2> QED
    BY <2>2
<1>4. status = "open" /\ status' = "open"
  BY DEF Fed
<1>5. Settled'
  BY <1>4 DEF Settled
<1>6. ASSUME NEW c \in Choices PROVE Sent(c)'
  <2>1. client'[c].calls = client[c].calls
    BY <1>1, TextOnly
  <2>2. Sent(c)
    BY DEF StreamInv
  <2>3. \A t \in Tools : ~client'[c].calls[t].begun
    BY <1>4, <2>1, <2>2 DEF Sent
  <2> QED
    BY <2>3 DEF Sent
<1>7. \A c \in Choices : Told(c)'
  BY ToldOn
<1> QED
  BY <1>2, <1>3, <1>5, <1>6, <1>7, LimitsKept DEF StreamInv

(***************************************************************************)
(* The other steps.                                                        *)
(***************************************************************************)

(* What holds of the answer depends on what is kept of it.                 *)
LEMMA KeptIsKept ==
  ASSUME choice' = choice
  PROVE  /\ Began' = Began /\ Held' = Held /\ Fragments' = Fragments
         /\ PartsHeld' = PartsHeld
         /\ \A c \in Choices : Offered(c)' = Offered(c) /\ Released(c)' = Released(c)
         /\ Acceptable' = Acceptable
<1>1. Began' = Began /\ Held' = Held
  BY DEF Began, Held
<1>2. Fragments' = Fragments
  BY <1>1 DEF Fragments
<1>3. \A c \in Choices : Offered(c)' = Offered(c)
  BY DEF Offered
<1>4. \A c \in Choices : Validated(c)' = Validated(c)
  BY <1>3 DEF Validated, Ended, CallsComplete
<1>5. Began \subseteq Choices
  BY DEF Began
<1>6. DistinctIds' = DistinctIds
  BY <1>1, <1>3, <1>5 DEF DistinctIds
<1>7. Acceptable' = Acceptable
  BY <1>1, <1>4, <1>5, <1>6 DEF Acceptable
<1>8. \A c \in Choices : Released(c)' = Released(c)
  BY <1>3 DEF Released
<1> QED
  BY <1>1, <1>2, <1>3, <1>7, <1>8 DEF PartsHeld

LEMMA FailKeeps ==
  ASSUME StreamInv, Fail
  PROVE  StreamInv'
<1>1. choice' = choice
  BY DEF Fail
<1>2. StreamTyped' /\ Silent'
  BY DEF StreamInv, StreamTyped, Silent, Fail
<1>3. Settled'
  BY DEF Settled, Fail
<1>4. WithinAll'
  BY <1>1, KeptIsKept DEF StreamInv, WithinAll
<1>5. ASSUME NEW c \in Choices PROVE Told(c)' /\ Sent(c)'
  <2>1. Told(c) /\ Sent(c)
    BY DEF StreamInv
  <2>2. Told(c)'
    BY <2>1 DEF Told, CallTold, Fail
  <2>3. Sent(c)'
    <3>1. Acceptable' = Acceptable /\ Offered(c)' = Offered(c)
      BY <1>1, KeptIsKept
    <3> QED
      BY <2>1, <3>1 DEF Sent, Fail
  <2> QED
    BY <2>2, <2>3
<1> QED
  BY <1>2, <1>3, <1>4, <1>5 DEF StreamInv

(* The beginning of an attempt: nothing is held.                           *)
LEMMA EmptyHeld ==
  ASSUME choice = [c \in Choices |-> NewChoice]
  PROVE  WithinAll
<1>1. Began = {} /\ Held = {}
  BY DEF Began, Held, NewChoice, NoCall
<1>2. Fragments = {}
  BY <1>1 DEF Fragments
<1> QED
  BY <1>1, <1>2, FS_EmptySet, StreamIntegrityAssumption DEF WithinAll, PartsHeld

LEMMA InitHolds == Init => StreamInv
<1> SUFFICES ASSUME Init PROVE StreamInv
  OBVIOUS
<1>1. StreamTyped
  <2>1. 1 \in 1..MaxAttempts /\ 0 \in 0..MaxFrames
    BY StreamIntegrityAssumption
  <2>2. choice \in [Choices -> [begun : BOOLEAN, finish : Endings, tools : [Tools -> Calls]]]
    BY NothingYet DEF Init
  <2>3. [text |-> 0, finish |-> NoFinish, calls |-> [t \in Tools |-> NoCall], from |-> {}]
          \in [text : Nat, finish : Endings, calls : [Tools -> Calls],
               from : SUBSET (1..MaxAttempts)]
    BY NothingYet DEF Endings
  <2> QED
    BY <2>1, <2>2, <2>3, NothingYet DEF Init, StreamTyped
<1>2. Silent /\ Settled
  BY DEF Init, Silent, Settled
<1>3. WithinAll
  BY EmptyHeld DEF Init
<1>4. ASSUME NEW c \in Choices PROVE Told(c) /\ Sent(c)
  <2>1. said[c].text = 0 /\ client[c].text = 0 /\ frames = 0
    BY DEF Init, Nothing
  <2>2. ASSUME NEW t \in Tools PROVE CallTold(c, t)
    BY DEF Init, Nothing, NewChoice, NoCall, CallTold
  <2>3. Told(c)
    <3>1. said[c].begun = choice[c].begun
      BY DEF Init, Nothing, NewChoice
    <3>2. said[c].finish = choice[c].finish
      BY DEF Init, Nothing, NewChoice
    <3>3. said[c].text = client[c].text /\ said[c].text <= frames
      BY <2>1
    <3> QED
      BY <2>2, <3>1, <3>2, <3>3 DEF Told
  <2>4. Sent(c)
    BY DEF Init, NoCall, Sent
  <2> QED
    BY <2>3, <2>4
<1> QED
  BY <1>1, <1>2, <1>3, <1>4 DEF StreamInv

LEMMA SoftRefusalKeeps ==
  ASSUME StreamInv, SoftRefusal
  PROVE  StreamInv'
<1>1. CASE ~Retryable
  BY <1>1, FailKeeps DEF SoftRefusal
<1>2. CASE Retryable
  <2>1. /\ attempt' = attempt + 1 /\ frames' = 0 /\ emitted' = FALSE
        /\ choice' = [c \in Choices |-> NewChoice] /\ said' = Nothing
        /\ pending' = pending /\ status' = status /\ client' = client
        /\ status = "open"
    BY <1>2 DEF SoftRefusal
  <2>2. StreamTyped /\ ~emitted /\ attempt < MaxAttempts
    BY <1>2 DEF StreamInv, Retryable
  <2>3. \A c \in Choices : client[c].text = 0
    BY <2>2 DEF StreamInv, Silent
  <2>4. StreamTyped'
    <3>1. attempt' \in 1..MaxAttempts /\ frames' \in 0..MaxFrames
      BY <2>1, <2>2, StreamIntegrityAssumption DEF StreamTyped
    <3>2. choice' \in [Choices -> [begun : BOOLEAN, finish : Endings, tools : [Tools -> Calls]]]
      BY <2>1, NothingYet
    <3> QED
      BY <2>1, <2>2, <3>1, <3>2, NothingYet DEF StreamTyped
  <2>5. Silent' /\ Settled'
    BY <2>1, <2>3 DEF Silent, Settled
  <2>6. WithinAll'
    <3>1. Began' = {} /\ Held' = {}
      BY <2>1 DEF Began, Held, NewChoice, NoCall
    <3>2. Fragments' = {}
      BY <3>1 DEF Fragments
    <3> QED
      BY <3>1, <3>2, FS_EmptySet, StreamIntegrityAssumption DEF WithinAll, PartsHeld
  <2>7. ASSUME NEW c \in Choices PROVE Told(c)' /\ Sent(c)'
    <3>1. said'[c].text = 0 /\ client'[c].text = 0 /\ frames' = 0
      BY <2>1, <2>3 DEF Nothing
    <3>2. ASSUME NEW t \in Tools PROVE CallTold(c, t)'
      BY <2>1 DEF Nothing, NewChoice, NoCall, CallTold
    <3>3. said'[c].begun = choice'[c].begun
      BY <2>1 DEF Nothing, NewChoice
    <3>4. said'[c].finish = choice'[c].finish
      BY <2>1 DEF Nothing, NewChoice
    <3>5. said'[c].text = client'[c].text /\ said'[c].text <= frames'
      BY <3>1
    <3>6. Told(c)'
      BY <3>2, <3>3, <3>4, <3>5 DEF Told
    <3>7. Sent(c)'
      BY <2>1 DEF StreamInv, Sent
    <3> QED
      BY <3>6, <3>7
  <2> QED
    BY <2>4, <2>5, <2>6, <2>7 DEF StreamInv
<1> QED
  BY <1>1, <1>2

LEMMA EndKeeps ==
  ASSUME StreamInv, End
  PROVE  StreamInv'
<1>1. CASE ~Acceptable
  BY <1>1, FailKeeps DEF End
<1>2. CASE Acceptable
  <2>1. /\ status' = "closing" /\ pending' = Began /\ status = "open"
        /\ UNCHANGED <<attempt, frames, choice, emitted, client, said>>
    BY <1>2 DEF End
  <2>2. StreamTyped' /\ Silent'
    <3>1. Began \in SUBSET Choices
      BY DEF Began
    <3> QED
      BY <2>1, <3>1 DEF StreamInv, StreamTyped, Silent
  <2>3. Settled'
    <3>1. Began' \ pending' = {} /\ Acceptable'
      BY <1>2, <2>1, KeptIsKept
    <3> QED
      BY <2>1, <3>1 DEF Settled
  <2>4. WithinAll'
    BY <2>1, KeptIsKept DEF StreamInv, WithinAll
  <2>5. ASSUME NEW c \in Choices PROVE Told(c)' /\ Sent(c)'
    <3>1. Told(c)'
      BY <2>1 DEF StreamInv, Told, CallTold
    <3>2. Sent(c)'
      BY <2>1 DEF StreamInv, Sent
    <3> QED
      BY <3>1, <3>2
  <2> QED
    BY <2>2, <2>3, <2>4, <2>5 DEF StreamInv
<1> QED
  BY <1>1, <1>2

(* A terminal frame: the finish of a choice and the calls that go with it. *)
LEMMA EmitTerminalKeeps ==
  ASSUME StreamInv, NEW d \in Choices, EmitTerminal(d)
  PROVE  StreamInv'
<1> DEFINE Records == [text : Nat, finish : Endings, calls : [Tools -> Calls],
                       from : SUBSET (1..MaxAttempts)]
<1>1. /\ status = "closing" /\ d \in pending
      /\ emitted' = TRUE /\ pending' = pending \ {d}
      /\ status' = IF pending' = {} THEN "done" ELSE "closing"
      /\ UNCHANGED <<attempt, frames, choice, said>>
  BY DEF EmitTerminal
<1>2. StreamTyped /\ Settled /\ Acceptable
  BY <1>1 DEF StreamInv, Settled
<1>3. client[d] \in Records /\ DOMAIN client = Choices
  BY <1>2 DEF StreamTyped
<1>4. client' = [c \in Choices |-> client'[c]]
  BY <1>3 DEF EmitTerminal
<1>5. client'[d] = [text |-> client[d].text, finish |-> choice[d].finish,
                    calls |-> Released(d), from |-> client[d].from \cup {attempt}]
  BY <1>3 DEF EmitTerminal
<1>6. \A c \in Choices : c # d => client'[c] = client[c]
  BY <1>3 DEF EmitTerminal
<1>7. Released(d) \in [Tools -> Calls]
  BY <1>2, NothingYet DEF Released, StreamTyped
<1>8. client' \in [Choices -> Records]
  <2>1. choice[d].finish \in Endings
    BY <1>2 DEF StreamTyped
  <2>2. client[d].from \cup {attempt} \in SUBSET (1..MaxAttempts)
    BY <1>2 DEF StreamTyped
  <2>3. client'[d] \in Records
    BY <1>3, <1>5, <1>7, <2>1, <2>2
  <2>4. \A c \in Choices : client[c] \in Records
    BY <1>2 DEF StreamTyped
  <2>5. client' = [c \in Choices |-> client'[c]]
    BY <1>4
  <2> HIDE DEF Records
  <2> QED
    BY <1>6, <2>3, <2>4, <2>5
<1>9. StreamTyped'
  BY <1>1, <1>2, <1>8 DEF StreamTyped
<1>10. Silent'
  BY <1>1 DEF Silent
<1>11. /\ Acceptable' /\ Began' = Began
       /\ \A c \in Choices : Offered(c)' = Offered(c) /\ Released(c)' = Released(c)
  BY <1>1, <1>2, KeptIsKept
<1>12. Settled'
  <2>1. ASSUME NEW c \in Began \ pending'
        PROVE  client'[c].finish = choice[c].finish /\ client'[c].calls = Released(c)
    <3>1. c \in Choices
      BY DEF Began
    <3>2. CASE c = d
      BY <1>5, <3>2
    <3>3. CASE c # d
      <4>1. c \in Began \ pending
        BY <1>1, <3>3
      <4>2. client[c].finish = choice[c].finish /\ client[c].calls = Released(c)
        BY <1>1, <1>2, <4>1 DEF Settled
      <4> QED
        BY <1>6, <3>1, <3>3, <4>2
    <3> QED
      BY <3>2, <3>3
  <2>2. ASSUME NEW c \in Began' \ pending'
        PROVE  client'[c].finish = choice'[c].finish /\ client'[c].calls = Released(c)'
    <3>1. c \in Began \ pending' /\ c \in Choices
      BY <1>11 DEF Began
    <3>2. choice'[c] = choice[c] /\ Released(c)' = Released(c)
      BY <1>1, <1>11, <3>1
    <3> QED
      BY <2>1, <3>1, <3>2
  <2>3. status' = "done" => pending' = {}
    BY <1>1
  <2> QED
    BY <1>11, <2>2, <2>3 DEF Settled
<1>13. WithinAll'
  BY <1>1, KeptIsKept DEF StreamInv, WithinAll
<1>14. ASSUME NEW c \in Choices PROVE Told(c)'
  <2>1. client'[c].text = client[c].text
    BY <1>5, <1>6
  <2>2. Told(c)
    BY DEF StreamInv
  <2> QED
    BY <1>1, <2>1, <2>2 DEF Told, CallTold
<1>15. ASSUME NEW c \in Choices PROVE Sent(c)'
  <2> SUFFICES ASSUME NEW t \in Tools, client'[c].calls[t].begun
               PROVE  t \in Offered(c) /\ client'[c].calls[t] = choice[c].tools[t]
    BY <1>1, <1>11 DEF Sent
  <2>1. CASE c = d
    BY <1>5, <2>1 DEF Released, NoCall
  <2>2. CASE c # d
    BY <1>6, <2>2 DEF StreamInv, Sent
  <2> QED
    BY <2>1, <2>2
<1> QED
  BY <1>9, <1>10, <1>12, <1>13, <1>14, <1>15 DEF StreamInv

(* Nothing that the properties look at changes in a stuttering step.       *)
LEMMA StutterKeeps ==
  ASSUME StreamInv, UNCHANGED vars
  PROVE  StreamInv'
<1>1. StreamTyped' /\ Silent'
  BY DEF StreamInv, StreamTyped, Silent, vars
<1>2. /\ Began' = Began /\ Acceptable' = Acceptable
      /\ \A c \in Choices : Offered(c)' = Offered(c) /\ Released(c)' = Released(c)
  BY KeptIsKept DEF vars
<1>3. Settled'
  BY <1>2 DEF StreamInv, Settled, Began, vars
<1>4. WithinAll'
  BY KeptIsKept DEF StreamInv, WithinAll, vars
<1>5. ASSUME NEW c \in Choices PROVE Told(c)' /\ Sent(c)'
  <2>1. Told(c)'
    BY DEF StreamInv, Told, CallTold, vars
  <2>2. Sent(c)'
    BY <1>2 DEF StreamInv, Sent, vars
  <2> QED
    BY <2>1, <2>2
<1> QED
  BY <1>1, <1>3, <1>4, <1>5 DEF StreamInv

(***************************************************************************)
(* The theorems.                                                           *)
(***************************************************************************)

(* The invariant holds of every state that upstream can lead to.           *)
THEOREM StreamInvariant == Spec => []StreamInv
<1>1. ASSUME StreamInv, [Next]_vars
      PROVE  StreamInv'
  <2>1. CASE \E C \in SUBSET Choices \ {{}} : \E f \in [C -> Updates] : Feed(f)
    <3>1. PICK C \in SUBSET Choices : \E f \in [C -> Updates] : Feed(f)
      BY <2>1
    <3>2. PICK f \in [C -> Updates] : Feed(f)
      BY <3>1
    <3>3. CASE Accepts(f)
      <4>1. DOMAIN f = C
        OBVIOUS
      <4>2. Fed(C, f)
        BY <3>2, <3>3, <4>1 DEF Feed, Fed
      <4> QED
        BY <1>1, <4>2, FedKeeps
    <3>4. CASE ~Accepts(f)
      BY <1>1, <3>2, <3>4, FailKeeps DEF Feed
    <3> QED
      BY <3>3, <3>4
  <2>2. CASE Malformed
    BY <1>1, <2>2, FailKeeps DEF Malformed
  <2>3. CASE SoftRefusal
    BY <1>1, <2>3, SoftRefusalKeeps
  <2>4. CASE End
    BY <1>1, <2>4, EndKeeps
  <2>5. CASE \E c \in Choices : EmitTerminal(c)
    BY <1>1, <2>5, EmitTerminalKeeps
  <2>6. CASE UNCHANGED vars
    BY <1>1, <2>6, StutterKeeps
  <2> QED
    BY <1>1, <2>1, <2>2, <2>3, <2>4, <2>5, <2>6 DEF Next
<1> QED
  BY <1>1, InitHolds, PTL DEF Spec

(* What the client holds of a text is bounded as the type invariant says.  *)
LEMMA TypesFollow ==
  ASSUME StreamInv
  PROVE  TypeOK
<1>1. StreamTyped /\ WithinAll
  BY DEF StreamInv
<1>2. ASSUME NEW c \in Choices
      PROVE  client[c].text \in 0..(MaxAttempts * MaxFrames)
  <2>1. client[c].text \in Nat /\ client[c].text <= frames /\ frames <= MaxFrames
    BY StreamIntegrityAssumption DEF StreamInv, StreamTyped, Told
  <2>2. MaxFrames \in Nat /\ MaxAttempts \in Nat \ {0} /\ frames \in Nat
    BY <1>1, StreamIntegrityAssumption DEF StreamTyped
  <2>3. MaxFrames <= MaxAttempts * MaxFrames /\ MaxAttempts * MaxFrames \in Nat
    <3>1. MaxAttempts - 1 \in Nat
      BY <2>2
    <3>2. (MaxAttempts - 1) * MaxFrames \in Nat
      BY <2>2, <3>1
    <3>3. MaxAttempts * MaxFrames = (MaxAttempts - 1) * MaxFrames + MaxFrames
      BY <2>2
    <3> QED
      BY <2>2, <3>2, <3>3
  <2> HIDE DEF StreamTyped
  <2> QED
    BY <2>1, <2>2, <2>3
<1> QED
  BY <1>1, <1>2 DEF StreamTyped, WithinAll, TypeOK, Endings

(* A call that the client holds was said in full, under one id, in an      *)
(* answer whose every choice upstream has ended: end() lets no call out of *)
(* a stream that it has not validated as a whole (stream_integrity.go:13). *)
THEOREM CallsAreWhole == Spec => []ToolsWhole
<1>1. ASSUME StreamInv
      PROVE  ToolsWhole
  <2>1. TypeOK
    BY <1>1, TypesFollow
  <2>2. ASSUME NEW c \in Choices, NEW t \in Tools, client[c].calls[t].begun
        PROVE  /\ said[c].parts[t] = PartsOfCall
               /\ said[c].ids[t] \subseteq {client[c].calls[t].id}
               /\ said[c].finish \notin Cut \cup {NoFinish}
               /\ \A d \in Choices : said[d].begun => said[d].finish # NoFinish
    <3>1. /\ Acceptable /\ t \in Offered(c)
          /\ client[c].calls[t] = choice[c].tools[t]
      BY <1>1, <2>2 DEF StreamInv, Sent
    <3>2. Told(c) /\ CallTold(c, t)
      BY <1>1 DEF StreamInv, Told
    <3>3. choice[c].tools[t].begun /\ choice[c].finish \notin Cut
      BY <3>1 DEF Offered
    <3>4. \A d \in Choices : choice[d].begun => Validated(d)
      BY <3>1 DEF Acceptable, Began
    <3>5. Validated(c)
      BY <3>2, <3>3, <3>4 DEF CallTold
    <3>6. choice[c].tools[t].parts = PartsOfCall /\ choice[c].finish # NoFinish
      BY <3>1, <3>5 DEF Validated, CallsComplete, Ended
    <3>7. said[c].parts[t] = PartsOfCall
      BY <3>2, <3>6 DEF CallTold
    <3>8. said[c].ids[t] \subseteq {client[c].calls[t].id}
      BY <3>1, <3>2 DEF CallTold
    <3>9. said[c].finish \notin Cut \cup {NoFinish}
      BY <3>2, <3>3, <3>6 DEF Told
    <3>10. \A d \in Choices : said[d].begun => said[d].finish # NoFinish
      BY <1>1, <3>4 DEF StreamInv, Told, Validated, Ended
    <3> QED
      BY <3>7, <3>8, <3>9, <3>10
  <2> QED
    BY <2>1, <2>2 DEF ToolsWhole
<1> QED
  BY <1>1, StreamInvariant, PTL

(* An answer that ends well is the whole answer: of every choice that      *)
(* upstream began the client has the text, the finish reason and, unless   *)
(* upstream cut the choice short, the calls (walkIntegrityStream).         *)
THEOREM AnswersAreWhole == Spec => []NothingLost
<1>1. ASSUME StreamInv
      PROVE  NothingLost
  <2> SUFFICES ASSUME status = "done", NEW c \in Choices, said[c].begun
               PROVE  /\ client[c].text = said[c].text
                      /\ client[c].finish = said[c].finish
                      /\ said[c].finish \notin Cut =>
                           \A t \in said[c].tools : client[c].calls[t].begun
    BY DEF NothingLost
  <2>1. Told(c) /\ Settled
    BY <1>1 DEF StreamInv
  <2>2. c \in Began \ pending
    BY <2>1 DEF Told, Settled, Began
  <2>3. client[c].finish = choice[c].finish /\ client[c].calls = Released(c)
    BY <2>1, <2>2 DEF Settled
  <2>4. ASSUME NEW t \in said[c].tools, said[c].finish \notin Cut
        PROVE  client[c].calls[t].begun
    <3>1. t \in Tools
      BY <1>1 DEF StreamInv, StreamTyped
    <3>2. choice[c].tools[t].begun /\ choice[c].finish \notin Cut
      BY <2>1, <2>4, <3>1 DEF Told, CallTold
    <3>3. t \in Offered(c)
      BY <3>1, <3>2 DEF Offered
    <3> QED
      BY <2>3, <3>1, <3>2, <3>3 DEF Released
  <2> QED
    BY <2>1, <2>3, <2>4 DEF Told
<1> QED
  BY <1>1, StreamInvariant, PTL
=============================================================================
