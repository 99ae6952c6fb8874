----------------------- MODULE ObservationIntakeProofs -----------------------
(***************************************************************************)
(* Theorems about ObservationIntake.  One invariant, Consistent, says what *)
(* the store, the outbox and the running calls know of each other; the     *)
(* properties are parts of it or follow from one step under it.            *)
(***************************************************************************)
EXTENDS ObservationIntake, FiniteSetTheorems, TLAPS
-----------------------------------------------------------------------------
(* Sequences and their elements *)

\* Append adds one element.
LEMMA ToSetAppend ==
    ASSUME NEW S, NEW s \in Seq(S), NEW x \in S
    PROVE  Append(s, x) \in Seq(S) /\ ToSet(Append(s, x)) = ToSet(s) \cup {x}
<1>1. /\ Len(s) \in Nat /\ DOMAIN s = 1 .. Len(s)
      /\ Append(s, x) \in Seq(S)
      /\ DOMAIN Append(s, x) = 1 .. Len(s) + 1
      /\ \A i \in 1 .. Len(s) : Append(s, x)[i] = s[i]
      /\ Append(s, x)[Len(s) + 1] = x
  OBVIOUS
<1>2. ToSet(Append(s, x)) \subseteq ToSet(s) \cup {x}
  BY <1>1 DEF ToSet
<1>3. x \in ToSet(Append(s, x)) /\ ToSet(s) \subseteq ToSet(Append(s, x))
  BY <1>1 DEF ToSet
<1> QED
  BY <1>1, <1>2, <1>3

\* The head and the rest have the elements of a sequence.
LEMMA ToSetTail ==
    ASSUME NEW S, NEW s \in Seq(S), s # << >>
    PROVE  /\ Head(s) \in S /\ Tail(s) \in Seq(S) /\ Len(Tail(s)) = Len(s) - 1
           /\ ToSet(s) = ToSet(Tail(s)) \cup {Head(s)}
<1>1. /\ Len(s) \in Nat \ {0} /\ DOMAIN s = 1 .. Len(s)
      /\ Head(s) = s[1] /\ Head(s) \in S
      /\ Tail(s) \in Seq(S) /\ Len(Tail(s)) = Len(s) - 1
      /\ DOMAIN Tail(s) = 1 .. Len(s) - 1
      /\ \A i \in 1 .. Len(s) - 1 : Tail(s)[i] = s[i + 1]
  OBVIOUS
<1>2. ToSet(Tail(s)) \cup {Head(s)} \subseteq ToSet(s)
  BY <1>1 DEF ToSet
<1>3. ASSUME NEW i \in 1 .. Len(s)
      PROVE  s[i] \in ToSet(Tail(s)) \cup {Head(s)}
  <2>1. CASE i = 1
    BY <1>1, <2>1
  <2>2. CASE i # 1
    <3>1. i - 1 \in 1 .. Len(s) - 1 /\ (i - 1) + 1 = i
      BY <1>1, <2>2
    <3> QED
      BY <1>1, <3>1 DEF ToSet
  <2> QED
    BY <2>1, <2>2
<1> QED
  BY <1>1, <1>2, <1>3 DEF ToSet

\* A concatenation has the elements of both parts.
LEMMA ToSetConcat ==
    ASSUME NEW S, NEW s \in Seq(S), NEW t \in Seq(S)
    PROVE  /\ s \o t \in Seq(S) /\ Len(s \o t) = Len(s) + Len(t)
           /\ ToSet(s \o t) = ToSet(s) \cup ToSet(t)
<1>1. /\ Len(s) \in Nat /\ DOMAIN s = 1 .. Len(s)
      /\ Len(t) \in Nat /\ DOMAIN t = 1 .. Len(t)
      /\ s \o t \in Seq(S) /\ Len(s \o t) = Len(s) + Len(t)
      /\ DOMAIN (s \o t) = 1 .. Len(s) + Len(t)
      /\ \A i \in 1 .. Len(s) + Len(t) :
            (s \o t)[i] = IF i <= Len(s) THEN s[i] ELSE t[i - Len(s)]
  OBVIOUS
<1>2. ASSUME NEW i \in 1 .. Len(s) + Len(t)
      PROVE  (s \o t)[i] \in ToSet(s) \cup ToSet(t)
  <2>1. CASE i <= Len(s)
    BY <1>1, <2>1 DEF ToSet
  <2>2. CASE ~(i <= Len(s))
    <3>1. i - Len(s) \in 1 .. Len(t)
      BY <1>1, <2>2
    <3> QED
      BY <1>1, <2>2, <3>1 DEF ToSet
  <2> QED
    BY <2>1, <2>2
<1>3. ASSUME NEW i \in 1 .. Len(s)
      PROVE  s[i] \in ToSet(s \o t)
  BY <1>1 DEF ToSet
<1>4. ASSUME NEW i \in 1 .. Len(t)
      PROVE  t[i] \in ToSet(s \o t)
  <2>1. /\ i + Len(s) \in 1 .. Len(s) + Len(t) /\ ~(i + Len(s) <= Len(s))
        /\ (i + Len(s)) - Len(s) = i
    BY <1>1
  <2> QED
    BY <1>1, <2>1 DEF ToSet
<1>5. ToSet(s \o t) \subseteq ToSet(s) \cup ToSet(t)
  BY <1>1, <1>2 DEF ToSet
<1>6. ToSet(s) \subseteq ToSet(s \o t) /\ ToSet(t) \subseteq ToSet(s \o t)
  BY <1>1, <1>3, <1>4 DEF ToSet
<1> QED
  BY <1>1, <1>5, <1>6

\* A finite set has a sequence of its elements, each once.
LEMMA SetToSeqIsOnto ==
    ASSUME NEW S, IsFiniteSet(S)
    PROVE  /\ SetToSeq(S) \in Seq(S)
           /\ Len(SetToSeq(S)) = Cardinality(S)
           /\ ToSet(SetToSeq(S)) = S
<1> DEFINE D == 1 .. Cardinality(S)
           Inj(g) == \A a, b \in DOMAIN g : g[a] = g[b] => a = b
<1>1. Cardinality(S) \in Nat
  BY FS_CardinalityType
<1>2. PICK f : f \in [D -> S] /\ IsInjective(f)
  <2>1. PICK g \in Bijection(D, S) : TRUE
    BY FS_CardinalityType DEF ExistsBijection
  <2> QED
    BY <2>1 DEF Bijection, Injection, Surjection, IsInjective
<1>3. SetToSeq(S) \in [D -> S] /\ IsInjective(SetToSeq(S))
  BY <1>2 DEF SetToSeq
<1>4. SetToSeq(S) \in Injection(D, S)
  BY <1>3 DEF Injection, IsInjective
<1>5. IsFiniteSet(D) /\ Cardinality(D) = Cardinality(S)
  BY <1>1, FS_Interval
<1>6. SetToSeq(S) \in Surjection(D, S)
  BY <1>4, <1>5, FS_Injection
<1>7. SetToSeq(S) \in Seq(S) /\ Len(SetToSeq(S)) = Cardinality(S)
  BY <1>1, <1>3
<1>8. ToSet(SetToSeq(S)) = S
  BY <1>3, <1>6 DEF ToSet, Surjection
<1> QED
  BY <1>7, <1>8
-----------------------------------------------------------------------------
(* The invariant *)

\* Samples the state store decided, those it no longer remembers included.
Ever == ToSet(decisions) \cup forgotten

\* The item is field f of a sample that came from source o.
Has(i, s, o, f) == i.sample = s /\ i.source = o /\ i.field = f
Kept(s, o, f) == \E i \in ToSet(queue) \cup rows \cup skipped : Has(i, s, o, f)

\* The item accepted when field f was observed.
Observed(f) == [sample |-> fields[f].sample, source |-> fields[f].source, field |-> f,
                at |-> fields[f].at]

\* A field is from a decided sample and was accepted with it; before what was
\* accepted over MQTT every publication was decided, and no poll went back.
Remembering ==
    /\ \A f \in Fields : fields[f].sample # 0 =>
          fields[f].sample \in Ever /\ Observed(f) \in accepted
    /\ \A i \in accepted :
          /\ i.sample \in Ever
          /\ i.source = "mqtt" => 1 .. (i.sample - 1) \subseteq Ever
          /\ i.source = "http" => i.sample <= polled
    /\ acknowledged \subseteq Ever

\* A sample was accepted twice only after it was forgotten.
AcceptedOnce ==
    \A i, j \in accepted : SameSample(i, j) => i = j \/ i.sample \in forgotten

\* An appended item is the oldest of the queue and is in the database.
HeadIsAppended ==
    cycle = "appended" => queue # << >> /\ Head(queue) \in rows \cup skipped

\* What was delivered was acknowledged or has its call.
SentIsHeld ==
    \A m \in sent :
        \/ m \in acknowledged
        \/ \E h \in handlers : OverMqtt(h) /\ h.sample = m /\ h.current

Progressed == {"decided", "replaying", "capturing", "done"}

\* What a call may rely on: a field that is still of its sample is kept for
\* history, or the call is about to hand it over.
CallInv(h) ==
    /\ h \in Call
    /\ IsFiniteSet(h.due) /\ h.due \subseteq accepted
    /\ OverMqtt(h) => h.sample <= published /\ 1 .. (h.sample - 1) \subseteq Ever
    /\ ~OverMqtt(h) => h.sample = polled
    /\ h.stage = "capturing" => OverMqtt(h)
    /\ h.stage \in Progressed =>
          /\ h.sample \in Ever
          /\ \A f \in OwnFields(h) : h.sample \notin forgotten =>
                \/ Kept(h.sample, h.source, f)
                \/ h.stage = "decided" /\ \E i \in h.due : Has(i, h.sample, h.source, f)

Calls == \A h \in handlers : CallInv(h)

Consistent ==
    /\ TypeOK /\ Remembering /\ AcceptedOnce /\ HistoryWasAccepted
    /\ LatestAcknowledgedIsKept /\ HeadIsAppended /\ SentIsHeld /\ Calls
-----------------------------------------------------------------------------
(* Samples and items *)

\* 0 is no sample: it stands for a field that was never observed.
LEMMA SamplesAreNumbers ==
    Samples \subseteq Nat \ {0} /\ Published \subseteq Samples /\ Times \subseteq Nat
<1>1. /\ MaxPublished \in Nat /\ MaxTime \in Nat
      /\ \A k \in Kinds : PolledOf[k] \subseteq Nat \ {0}
  BY ObservationAssumption
<1>2. Published \subseteq Nat \ {0} /\ Times \subseteq Nat
  BY <1>1 DEF Published, Times
<1>3. UNION {PolledOf[k] : k \in Kinds} \subseteq Nat \ {0}
  BY <1>1
<1> QED
  BY <1>2, <1>3 DEF Samples

\* The bounds as numbers.
LEMMA Bounds ==
    ASSUME TypeOK
    PROVE  /\ published \in Nat /\ polled \in Nat /\ now \in Times /\ faults \in Nat
           /\ Fault => faults' \in 0 .. MaxFaults
<1>1. /\ MaxPublished \in Nat /\ MaxFaults \in Nat
      /\ \A k \in Kinds : PolledOf[k] \subseteq Nat \ {0}
  BY ObservationAssumption
<1> QED
  BY <1>1 DEF TypeOK, Fault

\* Publications as numbers.
LEMMA Lengths ==
    ASSUME TypeOK
    PROVE  /\ published \in Nat /\ MaxPublished \in Nat /\ published <= MaxPublished
           /\ 1 .. published \subseteq Published
BY ObservationAssumption DEF TypeOK, Published

\* A field that was never observed is from sample 0.
LEMMA FieldsHaveNumbers ==
    ASSUME TypeOK, NEW f \in Fields
    PROVE  fields[f].sample \in Nat
<1>1. fields[f].sample = 0 \/ fields[f].sample \in Samples
  BY DEF TypeOK
<1>2. CASE fields[f].sample \in Samples
  BY <1>2, SamplesAreNumbers
<1>3. CASE fields[f].sample = 0
  BY <1>3
<1> QED
  BY <1>1, <1>2, <1>3

\* A decision hands over finitely many items.
LEMMA ItemsAtAreItems ==
    ASSUME NEW h, h.sample \in Samples, h.source \in Sources, NEW keys \in SUBSET Fields,
           NEW at \in Times
    PROVE  ItemsAt(h, keys, at) \subseteq Items /\ IsFiniteSet(ItemsAt(h, keys, at))
<1> DEFINE item == [f \in keys |-> [sample |-> h.sample, source |-> h.source, field |-> f,
                                    at |-> at]]
<1>1. IsFiniteSet(keys)
  BY ObservationAssumption, FS_Subset
<1>2. item \in Surjection(keys, ItemsAt(h, keys, at))
  BY DEF Surjection, ItemsAt
<1>3. IsFiniteSet(ItemsAt(h, keys, at))
  BY <1>1, <1>2, FS_Surjection
<1> QED
  BY <1>3 DEF ItemsAt, Items

\* A duplicate hands over what was accepted with it, each field still its own.
LEMMA DueAgainIsDue ==
    ASSUME TypeOK, Remembering, NEW h, h.sample \in Samples
    PROVE  /\ DueAgain(h) \subseteq accepted /\ IsFiniteSet(DueAgain(h))
           /\ \A f \in OwnFields(h) : \E i \in DueAgain(h) : Has(i, h.sample, h.source, f)
<1> DEFINE keys == OwnFields(h)
           item == [f \in keys |-> [sample |-> h.sample, source |-> h.source, field |-> f,
                                    at |-> fields[f].at]]
<1>1. IsFiniteSet(keys)
  BY ObservationAssumption, FS_Subset DEF OwnFields
<1>2. item \in Surjection(keys, DueAgain(h))
  BY DEF Surjection, DueAgain
<1>3. IsFiniteSet(DueAgain(h))
  BY <1>1, <1>2, FS_Surjection
<1>4. DueAgain(h) \subseteq accepted
  BY SamplesAreNumbers DEF DueAgain, OwnFields, Observed, Remembering
<1>5. ASSUME NEW f \in OwnFields(h)
      PROVE  \E i \in DueAgain(h) : Has(i, h.sample, h.source, f)
  <2>1. [sample |-> h.sample, source |-> h.source, field |-> f, at |-> fields[f].at]
           \in DueAgain(h)
    BY DEF DueAgain
  <2> QED
    BY <2>1 DEF Has
<1> QED
  BY <1>3, <1>4, <1>5

\* Retention drops at most the oldest decision.
LEMMA RememberedIsBounded ==
    ASSUME NEW s \in Samples, NEW keys, decisions \in Seq(Samples),
           Len(decisions) <= DecisionLimit
    PROVE  /\ Remembered(s, keys) \in Seq(Samples)
           /\ Len(Remembered(s, keys)) <= DecisionLimit
           /\ ToSet(Remembered(s, keys)) \subseteq ToSet(decisions) \cup {s}
           /\ s \in ToSet(Remembered(s, keys))
<1> DEFINE all == Append(decisions, s)
<1>1. /\ all \in Seq(Samples) /\ all # << >> /\ Len(all) = Len(decisions) + 1
      /\ ToSet(all) = ToSet(decisions) \cup {s}
  BY ToSetAppend
<1>2. DecisionLimit \in Nat \ {0} /\ Len(decisions) \in Nat
  BY ObservationAssumption
<1>3. CASE Len(all) > DecisionLimit
  <2>1. Remembered(s, keys) = Tail(all)
    BY <1>3 DEF Remembered
  <2>2. /\ Tail(all) \in Seq(Samples) /\ Len(Tail(all)) = Len(all) - 1
        /\ ToSet(all) = ToSet(Tail(all)) \cup {Head(all)}
    BY <1>1, ToSetTail
  <2>3. Len(decisions) \in 1 .. Len(Tail(all)) /\ Tail(all)[Len(decisions)] = s
    BY <1>1, <1>2, <1>3, <2>2
  <2>4. DOMAIN Tail(all) = 1 .. Len(Tail(all))
    BY <2>2
  <2>5. s \in ToSet(Tail(all))
    BY <2>3, <2>4 DEF ToSet
  <2> QED
    BY <1>1, <1>2, <2>1, <2>2, <2>5
<1>4. CASE ~(Len(all) > DecisionLimit)
  BY <1>1, <1>2, <1>4 DEF Remembered
<1> QED
  BY <1>3, <1>4

\* What is added to the outbox: the rest of what is due is there already.
LEMMA AdditionsAreQueued ==
    ASSUME NEW h, queue \in Seq(Items), IsFiniteSet(h.due), h.due \subseteq Items
    PROVE  /\ Queued(h) \in Seq(Items)
           /\ Len(Queued(h)) = Len(queue) + Cardinality(Additions(h))
           /\ ToSet(Queued(h)) = ToSet(queue) \cup Additions(h)
           /\ queue # << >> => Queued(h) # << >> /\ Head(Queued(h)) = Head(queue)
           /\ Additions(h) \subseteq h.due /\ Cardinality(Additions(h)) \in Nat
           /\ Additions(h) = {} => Cardinality(Additions(h)) = 0
<1> DEFINE A == Additions(h)
<1>1. A \subseteq h.due
  BY DEF Additions
<1>2. IsFiniteSet(A) /\ Cardinality(A) \in Nat
  BY <1>1, FS_Subset, FS_CardinalityType
<1>3. SetToSeq(A) \in Seq(A) /\ Len(SetToSeq(A)) = Cardinality(A) /\ ToSet(SetToSeq(A)) = A
  BY <1>2, SetToSeqIsOnto
<1>4. SetToSeq(A) \in Seq(Items)
  BY <1>1, <1>3
<1>5. /\ Queued(h) \in Seq(Items)
      /\ Len(Queued(h)) = Len(queue) + Cardinality(A)
      /\ ToSet(Queued(h)) = ToSet(queue) \cup A
  BY <1>3, <1>4, ToSetConcat DEF Queued
<1>6. ASSUME queue # << >>
      PROVE  Queued(h) # << >> /\ Head(Queued(h)) = Head(queue)
  BY <1>4, <1>6 DEF Queued
<1>7. A = {} => Cardinality(A) = 0
  BY FS_EmptySet
<1> QED
  BY <1>1, <1>2, <1>5, <1>6, <1>7
-----------------------------------------------------------------------------
(* What a step may do to the store and the outbox *)

\* What the store may know of the fields.
Observations ==
    [Fields -> [sample : {0} \cup Samples, source : {"none"} \cup Sources, at : {0} \cup Times]]

\* No sample is undecided or remembered again, nothing leaves the history, and
\* a field goes back to a decided sample only when that one was forgotten.
Grows ==
    /\ published <= published'
    /\ Ever \subseteq Ever' /\ accepted \subseteq accepted' /\ forgotten \subseteq forgotten'
    /\ \A s, o, f : Kept(s, o, f) => Kept(s, o, f)'
    /\ \A f \in Fields :
          \/ fields'[f] = fields[f]
          \/ fields'[f].sample \notin Ever
          \/ fields'[f].sample \in forgotten'

StoreUnchanged == UNCHANGED <<fields, decisions, accepted, forgotten>>

\* What is queued stays queued or is in the database.
HistoryGrows ==
    /\ rows \subseteq rows' /\ skipped \subseteq skipped'
    /\ ToSet(queue) \subseteq ToSet(queue') \cup rows' \cup skipped'

\* A sample that is kept stays kept.
LEMMA HistoryKeeps ==
    ASSUME HistoryGrows, NEW s, NEW o, NEW f, Kept(s, o, f)
    PROVE  Kept(s, o, f)'
<1>1. PICK i \in ToSet(queue) \cup rows \cup skipped : Has(i, s, o, f)
  BY DEF Kept
<1>2. i \in (ToSet(queue) \cup rows \cup skipped)'
  BY <1>1 DEF HistoryGrows
<1> QED
  BY <1>1, <1>2 DEF Kept, Has

\* What holds of the state store holds after a step of another part.
LEMMA StoreStays ==
    ASSUME Consistent, StoreUnchanged, HistoryGrows, published <= published',
           polled' = polled \/ (polled' \in Nat /\ polled <= polled')
    PROVE  /\ Grows /\ AcceptedOnce' /\ Ever' = Ever
           /\ acknowledged' = acknowledged => Remembering' /\ LatestAcknowledgedIsKept'
<1>1. Ever' = Ever
  BY DEF Ever, StoreUnchanged
<1>2. \A s, o, f : Kept(s, o, f) => Kept(s, o, f)'
  BY HistoryKeeps
<1>3. Grows
  BY <1>1, <1>2 DEF Grows, StoreUnchanged
<1>4. AcceptedOnce'
  BY DEF Consistent, AcceptedOnce, StoreUnchanged, SameSample
<1>5. ASSUME acknowledged' = acknowledged
      PROVE  Remembering'
  <2>1. accepted' = accepted /\ \A i \in accepted : i.sample \in Nat
    BY SamplesAreNumbers DEF StoreUnchanged, Consistent, TypeOK, Items
  <2>2. polled \in Nat
    BY Bounds DEF Consistent
  <2>3. \A i \in accepted : i.sample <= polled => i.sample <= polled'
    BY <2>1, <2>2
  <2> QED
    BY <1>1, <1>5, <2>1, <2>3 DEF Consistent, Remembering, Observed, StoreUnchanged
<1>6. ASSUME acknowledged' = acknowledged, NEW f \in Fields,
             (fields[f].source = "mqtt" /\ fields[f].sample \in acknowledged \ forgotten)'
      PROVE  \E i \in (ToSet(queue) \cup rows \cup skipped)' :
                i.sample = fields'[f].sample /\ i.source = "mqtt" /\ i.field = f
  <2>1. PICK s : s = fields[f].sample
    OBVIOUS
  <2>2. fields[f].source = "mqtt" /\ s \in acknowledged \ forgotten /\ fields' = fields
    BY <1>6, <2>1 DEF StoreUnchanged
  <2>3. Kept(s, "mqtt", f)
    BY <2>1, <2>2 DEF Consistent, LatestAcknowledgedIsKept, Kept, Has
  <2>4. Kept(s, "mqtt", f)'
    BY <2>3, HistoryKeeps
  <2> QED
    BY <2>1, <2>2, <2>4 DEF Kept, Has
<1> QED
  BY <1>1, <1>3, <1>4, <1>5, <1>6 DEF LatestAcknowledgedIsKept

\* What a call relies on is not taken from it by a step of another.
LEMMA CallStays ==
    ASSUME Grows, published \in Nat, published' \in Nat, NEW h, CallInv(h),
           OverMqtt(h) \/ polled' = polled
    PROVE  CallInv(h)'
<1>1. h \in Call /\ h.sample \in Samples /\ h.sample \in Nat
  BY SamplesAreNumbers DEF CallInv, Call
<1>2. /\ OverMqtt(h) => h.sample <= published' /\ 1 .. (h.sample - 1) \subseteq Ever'
      /\ ~OverMqtt(h) => h.sample = polled'
  BY <1>1 DEF CallInv, Grows
<1>3. ASSUME h.stage \in Progressed, NEW f \in OwnFields(h)', h.sample \notin forgotten'
      PROVE  \/ Kept(h.sample, h.source, f)'
             \/ h.stage = "decided" /\ \E i \in h.due : Has(i, h.sample, h.source, f)
  <2>1. h.sample \in Ever /\ h.sample \notin forgotten
    BY <1>3 DEF CallInv, Grows
  <2>2. f \in Fields /\ fields'[f].sample = h.sample /\ fields'[f].source = h.source
    BY <1>3 DEF OwnFields
  <2>3. fields'[f] = fields[f]
    BY <1>3, <2>1, <2>2 DEF Grows
  <2>4. f \in OwnFields(h)
    BY <2>2, <2>3 DEF OwnFields
  <2>5. \/ Kept(h.sample, h.source, f)
        \/ h.stage = "decided" /\ \E i \in h.due : Has(i, h.sample, h.source, f)
    BY <1>3, <2>1, <2>4 DEF CallInv
  <2> QED
    BY <2>5 DEF Grows
<1>4. h.stage \in Progressed => h.sample \in Ever'
  BY DEF CallInv, Grows
<1>5. h.due \subseteq accepted'
  BY DEF CallInv, Grows
<1> QED
  BY <1>1, <1>2, <1>3, <1>4, <1>5 DEF CallInv, OverMqtt, Has

\* One call goes on, the others stay as they are.
LEMMA CallsBecome ==
    ASSUME Consistent, Grows, published \in Nat, published' \in Nat, polled' = polled,
           NEW h \in handlers, NEW new, Becomes(h, new), CallInv(new)'
    PROVE  Calls'
BY CallStays DEF Consistent, TypeOK, Calls, Becomes
-----------------------------------------------------------------------------
(* A decision *)

\* Whether its batch is reported as written or not.
LEMMA DecisionGrows ==
    ASSUME Consistent, NEW h \in handlers, NEW at \in Times,
           Decides(h, at), Decided(h, at), now' = at,
           UNCHANGED <<published, acknowledged, polled, queue, database>>
    PROVE  /\ fields' \in Observations
           /\ decisions' \in Seq(Samples) /\ Len(decisions') <= DecisionLimit
           /\ accepted' \subseteq Items /\ forgotten' \subseteq Samples
           /\ Grows /\ h.sample \in Ever'
           /\ Remembering' /\ AcceptedOnce' /\ HistoryWasAccepted' /\ LatestAcknowledgedIsKept'
<1> DEFINE s == h.sample
           keys == UpdatedKeys(s, at)
<1>1. /\ h \in Call /\ CallInv(h) /\ s \in Samples /\ s \in Nat \ {0} /\ h.source \in Sources
      /\ s \notin ToSet(decisions) /\ published \in Nat
  <2>1. CallInv(h) /\ h \in Call /\ s \notin ToSet(decisions)
    BY DEF Consistent, TypeOK, Calls, Decides
  <2>2. published \in Nat
    BY ObservationAssumption DEF Consistent, TypeOK
  <2> QED
    BY <2>1, <2>2, SamplesAreNumbers DEF Call
<1>2. keys \in SUBSET Fields /\ FieldsOf[s] \subseteq Fields
  BY <1>1, ObservationAssumption DEF UpdatedKeys
<1>3. /\ fields' = [f \in Fields |->
                       IF f \in keys THEN [sample |-> s, source |-> h.source, at |-> at]
                       ELSE fields[f]]
      /\ decisions' = Remembered(s, keys)
      /\ forgotten' = forgotten \cup (ToSet(decisions) \ ToSet(decisions'))
      /\ accepted' = accepted \cup ItemsAt(h, keys, at)
  BY DEF Decided
<1>4. /\ decisions' \in Seq(Samples) /\ Len(decisions') <= DecisionLimit
      /\ ToSet(decisions') \subseteq ToSet(decisions) \cup {s} /\ s \in ToSet(decisions')
  BY <1>1, <1>3, RememberedIsBounded DEF Consistent, TypeOK
<1>5. fields' \in Observations
  BY <1>1, <1>3 DEF Consistent, TypeOK, Observations
<1>6. accepted' \subseteq Items
  BY <1>1, <1>2, <1>3, ItemsAtAreItems DEF Consistent, TypeOK
<1>7. ToSet(decisions) \subseteq Samples
  BY DEF Consistent, TypeOK, ToSet
<1>8. forgotten' \subseteq Samples
  BY <1>3, <1>7 DEF Consistent, TypeOK
<1>9. Ever \subseteq Ever' /\ Ever' \subseteq Ever \cup {s} /\ s \in Ever'
  BY <1>3, <1>4 DEF Ever
\* A sample that was decided before was forgotten, or this were a duplicate.
<1>10. s \in Ever => s \in forgotten /\ s \in forgotten'
  BY <1>1, <1>3 DEF Ever
<1>11. \A f \in Fields : fields'[f] = fields[f] \/ fields'[f].sample = s
  BY <1>2, <1>3, <1>5
<1>12. \A k, o, f : Kept(k, o, f) <=> Kept(k, o, f)'
  BY DEF Kept, Has, database
<1>13. Grows
  BY <1>1, <1>3, <1>9, <1>10, <1>11, <1>12 DEF Grows
<1>14. Remembering'
  <2>1. ASSUME NEW f \in Fields, fields'[f].sample # 0
        PROVE  fields'[f].sample \in Ever' /\ Observed(f)' \in accepted'
    <3>1. CASE f \in keys
      BY <1>2, <1>3, <1>9, <3>1 DEF ItemsAt, Observed
    <3>2. CASE f \notin keys
      BY <1>3, <1>9, <2>1, <3>2 DEF Consistent, Remembering, Observed
    <3> QED
      BY <3>1, <3>2
  <2>2. ASSUME NEW i \in accepted'
        PROVE  /\ i.sample \in Ever'
               /\ i.source = "mqtt" => 1 .. (i.sample - 1) \subseteq Ever'
               /\ i.source = "http" => i.sample <= polled'
    <3>1. CASE i \in accepted
      BY <1>9, <3>1 DEF Consistent, Remembering
    <3>2. CASE i \notin accepted
      <4>1. i.sample = s /\ i.source = h.source
        BY <1>3, <3>2 DEF ItemsAt
      <4>2. /\ h.source = "mqtt" => 1 .. (s - 1) \subseteq Ever
            /\ h.source = "http" => s = polled
        BY <1>1 DEF CallInv, OverMqtt
      <4> QED
        BY <1>1, <1>9, <4>1, <4>2
    <3> QED
      BY <3>1, <3>2
  <2>3. acknowledged' \subseteq Ever'
    BY <1>9 DEF Consistent, Remembering
  <2> QED
    BY <2>1, <2>2, <2>3 DEF Remembering
<1>15. AcceptedOnce'
  <2>1. ASSUME NEW i \in accepted', NEW j \in accepted', SameSample(i, j), i # j
        PROVE  i.sample \in forgotten'
    <3>1. CASE i \in accepted /\ j \in accepted
      BY <1>3, <2>1, <3>1 DEF Consistent, AcceptedOnce
    <3>2. CASE i \notin accepted
      <4>1. i \in ItemsAt(h, keys, at) /\ i.sample = s /\ i.at = at
        BY <1>3, <3>2 DEF ItemsAt
      <4>2. j \in accepted
        BY <1>3, <2>1, <4>1 DEF ItemsAt, SameSample
      <4> QED
        BY <1>10, <2>1, <4>1, <4>2 DEF Consistent, Remembering, SameSample
    <3>3. CASE j \notin accepted
      <4>1. j \in ItemsAt(h, keys, at) /\ j.sample = s /\ j.at = at
        BY <1>3, <3>3 DEF ItemsAt
      <4>2. i \in accepted
        BY <1>3, <2>1, <4>1 DEF ItemsAt, SameSample
      <4> QED
        BY <1>10, <2>1, <4>1, <4>2 DEF Consistent, Remembering, SameSample
    <3> QED
      BY <3>1, <3>2, <3>3
  <2> QED
    BY <2>1 DEF AcceptedOnce, SameSample
<1>16. HistoryWasAccepted'
  BY <1>3 DEF Consistent, HistoryWasAccepted, database
<1>17. ASSUME NEW f \in Fields, fields'[f].source = "mqtt",
              fields'[f].sample \in acknowledged' \ forgotten'
       PROVE  \E i \in (ToSet(queue) \cup rows \cup skipped)' :
                 i.sample = fields'[f].sample /\ i.source = "mqtt" /\ i.field = f
  <2>1. PICK k : k = fields[f].sample
    OBVIOUS
  <2>2. fields'[f] = fields[f] /\ k \in acknowledged \ forgotten
    BY <1>3, <1>10, <1>11, <1>17, <2>1 DEF Consistent, Remembering
  <2>3. Kept(k, "mqtt", f)
    BY <1>17, <2>1, <2>2 DEF Consistent, LatestAcknowledgedIsKept, Kept, Has
  <2>4. Kept(k, "mqtt", f)'
    BY <1>12, <2>3
  <2> QED
    BY <2>1, <2>2, <2>4 DEF Kept, Has
<1> QED
  BY <1>4, <1>5, <1>6, <1>8, <1>9, <1>13, <1>14, <1>15, <1>16, <1>17 DEF LatestAcknowledgedIsKept
-----------------------------------------------------------------------------
(* A call that goes on *)

\* What h became, when what it relies on was established.
LEMMA CallGoesOn ==
    ASSUME Consistent, StoreUnchanged, HistoryGrows, published' = published,
           polled' = polled, NEW h \in handlers, NEW new \in Call, Becomes(h, new),
           new.sample = h.sample, new.source = h.source, new.current = h.current,
           IsFiniteSet(new.due), new.due \subseteq accepted,
           new.stage = "capturing" => OverMqtt(h),
           new.stage \in Progressed =>
              /\ h.sample \in Ever
              /\ \A f \in OwnFields(h) : h.sample \notin forgotten =>
                    \/ Kept(h.sample, h.source, f)'
                    \/ new.stage = "decided" /\ \E i \in new.due : Has(i, h.sample, h.source, f)
    PROVE  /\ Calls'
           /\ UNCHANGED <<sent, acknowledged>> => SentIsHeld'
<1>1. Grows /\ Ever' = Ever /\ published \in Nat /\ published' \in Nat
  BY StoreStays, Bounds DEF Consistent
<1>2. CallInv(h)
  BY DEF Consistent, Calls
<1>3. CallInv(new)'
  BY <1>1, <1>2 DEF CallInv, StoreUnchanged, OverMqtt, OwnFields, Has
<1>4. Calls'
  BY <1>1, <1>3, CallsBecome
<1>5. UNCHANGED <<sent, acknowledged>> => SentIsHeld'
  BY DEF Consistent, SentIsHeld, Becomes, OverMqtt
<1> QED
  BY <1>4, <1>5

Failed(h) == [h EXCEPT !.stage = "failed", !.accepted = FALSE, !.due = {}]

\* A call that failed hands over nothing (the catch of handleMessage).
LEMMA FailedCall ==
    ASSUME Consistent, NEW h \in handlers
    PROVE  /\ Failed(h) \in Call /\ Failed(h).stage = "failed" /\ Failed(h).due = {}
           /\ Failed(h).sample = h.sample /\ Failed(h).source = h.source
           /\ Failed(h).current = h.current
           /\ IsFiniteSet(Failed(h).due) /\ Failed(h).stage \notin Progressed
<1>1. h \in Call
  BY DEF Consistent, TypeOK
<1>2. IsFiniteSet({})
  BY FS_EmptySet
<1> QED
  BY <1>1, <1>2 DEF Failed, Call, Progressed

\* It relies on nothing either.
LEMMA CallFails ==
    ASSUME Consistent, NEW h \in handlers, Becomes(h, Failed(h)),
           StoreUnchanged, HistoryGrows, published' = published, polled' = polled
    PROVE  /\ Calls'
           /\ UNCHANGED <<sent, acknowledged>> => SentIsHeld'
<1> DEFINE new == Failed(h)
<1>1. /\ new \in Call /\ new.sample = h.sample /\ new.source = h.source
      /\ new.current = h.current /\ IsFiniteSet(new.due) /\ new.due \subseteq accepted
      /\ new.stage # "capturing" /\ new.stage \notin Progressed
  BY FailedCall
<1> HIDE DEF new
<1>2. Becomes(h, new)
  BY DEF new
<1> QED
  BY <1>1, <1>2, CallGoesOn

\* Only the calls change, and the spool.
LEMMA OnlyCalls ==
    ASSUME Consistent, UNCHANGED <<mqtt, device, running, store, outbox, database>>,
           spooled' \subseteq Published, faults' \in 0 .. MaxFaults,
           cycle' \in {cycle, "idle", "running"}, cycle' = "appended" => cycle = "appended",
           Calls', SentIsHeld'
    PROVE  Consistent'
<1>1. StoreUnchanged /\ HistoryGrows /\ UNCHANGED <<published, acknowledged, polled>>
  BY DEF store, mqtt, device, outbox, database, StoreUnchanged, HistoryGrows
<1>2. Remembering' /\ AcceptedOnce' /\ LatestAcknowledgedIsKept'
  BY <1>1, StoreStays, Bounds DEF Consistent
<1>3. HistoryWasAccepted'
  BY DEF Consistent, HistoryWasAccepted, outbox, database, store
<1>4. HeadIsAppended'
  BY DEF Consistent, HeadIsAppended, outbox, database
<1>5. TypeOK'
  BY DEF Consistent, TypeOK, mqtt, device, store, outbox, database, Calls, CallInv
<1> QED
  BY <1>2, <1>3, <1>4, <1>5 DEF Consistent
-----------------------------------------------------------------------------
(* Steps of a call *)

\* Duplicate evidence: the retry of persistAccepted.
LEMMA DuplicateStep ==
    ASSUME Consistent, NEW h \in handlers, Duplicate(h)
    PROVE  Consistent'
<1> DEFINE new == [h EXCEPT !.stage = "decided", !.due = DueAgain(h)]
<1>1. /\ h \in Call /\ h.sample \in Samples
      /\ accepted \subseteq Items
  BY DEF Consistent, TypeOK, Call
<1>2. /\ DueAgain(h) \subseteq accepted /\ IsFiniteSet(DueAgain(h))
      /\ \A f \in OwnFields(h) : \E i \in DueAgain(h) : Has(i, h.sample, h.source, f)
  BY <1>1, DueAgainIsDue DEF Consistent
<1>3. /\ new \in Call /\ new.sample = h.sample /\ new.source = h.source
      /\ new.current = h.current
      /\ new.stage = "decided" /\ new.due = DueAgain(h)
  BY <1>1, <1>2 DEF Call
<1>4. Becomes(h, new) /\ h.sample \in Ever
  BY DEF Duplicate, Ever
<1>5. StoreUnchanged /\ HistoryGrows /\ UNCHANGED <<published, polled, sent, acknowledged>>
  BY DEF Duplicate, store, mqtt, device, outbox, database, StoreUnchanged, HistoryGrows
<1> HIDE DEF new
<1>6. Calls' /\ SentIsHeld'
  BY <1>2, <1>3, <1>4, <1>5, CallGoesOn
<1> QED
  BY <1>6, OnlyCalls DEF Duplicate, Consistent, TypeOK

\* A store, outbox or spool that refuses.
LEMMA RefusedStep ==
    ASSUME Consistent, NEW h \in handlers, Refused(h) \/ EnqueueRefused(h) \/ CaptureFails(h)
    PROVE  Consistent'
<1>1. /\ UNCHANGED <<mqtt, device, running, store, outbox, cycle, database, spooled>>
      /\ Becomes(h, Failed(h)) /\ (Fault \/ UNCHANGED faults)
  BY DEF Refused, EnqueueRefused, CaptureFails, Failed
<1>2. StoreUnchanged /\ HistoryGrows /\ UNCHANGED <<published, polled, sent, acknowledged>>
  BY <1>1 DEF store, mqtt, device, outbox, database, StoreUnchanged, HistoryGrows
<1>3. Calls' /\ SentIsHeld'
  BY <1>1, <1>2, CallFails
<1> QED
  BY <1>1, <1>3, OnlyCalls, Bounds DEF Consistent, TypeOK

\* Persisted only moves the stage.
LEMMA PersistedCall ==
    ASSUME Consistent, NEW h \in handlers
    PROVE  /\ Persisted(h) \in Call /\ Persisted(h).sample = h.sample
           /\ Persisted(h).source = h.source
           /\ Persisted(h).current = h.current /\ Persisted(h).due = h.due
           /\ Persisted(h).stage \in {"capturing", "done"}
           /\ Persisted(h).stage = "capturing" => OverMqtt(h)
<1>1. h \in Call
  BY DEF Consistent, TypeOK
<1> QED
  BY <1>1 DEF Persisted, Projected, Call

\* persistAccepted with nothing to persist.
LEMMA NothingDueStep ==
    ASSUME Consistent, NEW h \in handlers, NothingDue(h)
    PROVE  Consistent'
<1> DEFINE new == Persisted(h)
<1>1. /\ new \in Call /\ new.sample = h.sample /\ new.source = h.source
      /\ new.current = h.current /\ new.due = h.due
      /\ new.stage \in {"capturing", "done"} /\ new.stage = "capturing" => OverMqtt(h)
  BY PersistedCall
<1>2. Becomes(h, new) /\ h.stage = "decided" /\ h.due = {}
  BY DEF NothingDue
<1>3. StoreUnchanged /\ HistoryGrows /\ UNCHANGED <<published, polled, sent, acknowledged>>
  BY DEF NothingDue, store, mqtt, device, outbox, database, StoreUnchanged, HistoryGrows
<1>4. /\ h.sample \in Ever /\ IsFiniteSet(h.due) /\ h.due \subseteq accepted
      /\ \A f \in OwnFields(h) : h.sample \notin forgotten => Kept(h.sample, h.source, f)
  BY <1>2 DEF Consistent, Calls, CallInv, Progressed
<1> HIDE DEF new
<1>5. Calls' /\ SentIsHeld'
  BY <1>1, <1>2, <1>3, <1>4, HistoryKeeps, CallGoesOn
<1> QED
  BY <1>5, OnlyCalls DEF NothingDue, Consistent, TypeOK

\* telemetry.capture returned.
LEMMA CaptureStep ==
    ASSUME Consistent, NEW h \in handlers, Capture(h)
    PROVE  Consistent'
<1> DEFINE new == [h EXCEPT !.stage = "done", !.accepted = FALSE]
<1>1. /\ h \in Call /\ CallInv(h) /\ h.stage = "capturing" /\ OverMqtt(h)
  BY DEF Consistent, TypeOK, Calls, CallInv, Capture
<1>2. /\ new \in Call /\ new.sample = h.sample /\ new.source = h.source
      /\ new.current = h.current /\ new.due = h.due
      /\ new.stage = "done"
  BY <1>1 DEF Call
<1>3. StoreUnchanged /\ HistoryGrows /\ UNCHANGED <<published, polled, sent, acknowledged>>
  BY DEF Capture, store, mqtt, device, outbox, database, StoreUnchanged, HistoryGrows
<1>4. /\ h.sample \in Ever /\ IsFiniteSet(h.due) /\ h.due \subseteq accepted
      /\ \A f \in OwnFields(h) : h.sample \notin forgotten => Kept(h.sample, h.source, f)
  BY <1>1 DEF CallInv, Progressed
<1>5. Becomes(h, new)
  BY DEF Capture
<1> HIDE DEF new
<1>6. Calls' /\ SentIsHeld'
  BY <1>2, <1>3, <1>4, <1>5, HistoryKeeps, CallGoesOn
<1>7. spooled' \subseteq Published
  <2>1. h.sample \in Nat \ {0} /\ h.sample <= published
    BY <1>1, SamplesAreNumbers DEF CallInv, Call
  <2>2. published \in Nat /\ MaxPublished \in Nat /\ published <= MaxPublished
    BY Lengths DEF Consistent
  <2> QED
    BY <2>1, <2>2 DEF Capture, Published, Consistent, TypeOK
<1> QED
  BY <1>6, <1>7, OnlyCalls DEF Capture, Consistent, TypeOK

\* A decision that was written.
LEMMA DecideStep ==
    ASSUME Consistent, NEW h \in handlers, NEW at \in Times, Decide(h, at)
    PROVE  Consistent'
<1>keys. PICK keys : keys = UpdatedKeys(h.sample, at)
  OBVIOUS
<1>due. PICK due : due = ItemsAt(h, keys, at)
  OBVIOUS
<1>new. PICK new : new = [h EXCEPT !.stage = "decided", !.accepted = keys # {}, !.due = due]
  OBVIOUS
<1>1. /\ Decides(h, at) /\ Decided(h, at) /\ now' = at /\ Becomes(h, new)
      /\ UNCHANGED <<mqtt, device, running, poisoned, outbox, cycle, database, spooled, faults>>
      /\ h \in Call /\ CallInv(h) /\ h.sample \in Samples /\ h.source \in Sources
  BY <1>keys, <1>due, <1>new DEF Decide, Consistent, TypeOK, Calls, Call
<1>2. UNCHANGED <<published, acknowledged, polled, sent, queue, rows, skipped, cycle, database>>
  BY <1>1 DEF mqtt, device, outbox, database
<1>3. /\ fields' \in Observations
      /\ decisions' \in Seq(Samples) /\ Len(decisions') <= DecisionLimit
      /\ accepted' \subseteq Items /\ forgotten' \subseteq Samples
      /\ Grows /\ h.sample \in Ever'
      /\ Remembering' /\ AcceptedOnce' /\ HistoryWasAccepted' /\ LatestAcknowledgedIsKept'
  BY <1>1, <1>2, DecisionGrows
<1>4. keys \in SUBSET Fields /\ due \subseteq Items /\ IsFiniteSet(due) /\ due \subseteq accepted'
  <2>1. keys \in SUBSET Fields
    BY <1>1, <1>keys, ObservationAssumption DEF UpdatedKeys
  <2> QED
    BY <1>1, <1>keys, <1>due, <2>1, ItemsAtAreItems DEF Decided
<1>5. /\ new \in Call /\ new.sample = h.sample /\ new.source = h.source
      /\ new.current = h.current
      /\ new.stage = "decided" /\ new.due = due
  BY <1>1, <1>4, <1>new DEF Call
<1>6. ASSUME NEW f \in OwnFields(h)', h.sample \notin forgotten'
      PROVE  \E i \in due : Has(i, h.sample, h.source, f)
  <2>own. f \in Fields /\ fields'[f].sample = h.sample
    BY <1>6 DEF OwnFields
  <2>1. f \in keys
    <3>1. CASE fields'[f] # fields[f]
      BY <1>1, <1>keys, <2>own, <3>1 DEF Decided
    <3>2. CASE fields'[f] = fields[f]
      <4>1. h.sample \in Ever
        BY <1>1, <2>own, <3>2, SamplesAreNumbers DEF Consistent, Remembering
      <4>2. h.sample \in forgotten
        BY <1>1, <4>1 DEF Ever, Decides
      <4> QED
        BY <1>3, <1>6, <4>2 DEF Grows
    <3> QED
      BY <3>1, <3>2
  <2>2. [sample |-> h.sample, source |-> h.source, field |-> f, at |-> at] \in due
    BY <1>due, <2>1 DEF ItemsAt
  <2> QED
    BY <2>2 DEF Has
<1>7. CallInv(new)'
  BY <1>1, <1>2, <1>3, <1>4, <1>5, <1>6 DEF CallInv, OverMqtt, OwnFields, Grows, Has
<1>8. published \in Nat /\ published' \in Nat
  BY <1>2, Bounds DEF Consistent
<1>9. Calls'
  BY <1>1, <1>2, <1>3, <1>7, <1>8, CallsBecome
<1>10. SentIsHeld'
  BY <1>1, <1>2, <1>5 DEF Consistent, SentIsHeld, Becomes, OverMqtt
<1>11. HeadIsAppended'
  BY <1>2 DEF Consistent, HeadIsAppended
<1>12. TypeOK'
  BY <1>1, <1>3, <1>9 DEF Consistent, TypeOK, Observations, mqtt, device, outbox, database,
     Calls, CallInv
<1> QED
  BY <1>3, <1>9, <1>10, <1>11, <1>12 DEF Consistent

\* A decision whose batch failed, written or not.
LEMMA DecideFailsStep ==
    ASSUME Consistent, NEW h \in handlers, NEW at \in Times, DecideFails(h, at)
    PROVE  Consistent'
<1>1. /\ Decides(h, at) /\ now' = at /\ poisoned' = TRUE /\ Becomes(h, Failed(h)) /\ Fault
      /\ Decided(h, at) \/ StoreUnchanged
      /\ UNCHANGED <<mqtt, device, running, outbox, cycle, database, spooled>>
  BY DEF DecideFails, Failed, StoreUnchanged
<1>2. /\ UNCHANGED <<published, acknowledged, polled, sent, queue, rows, skipped, cycle, database>>
      /\ published \in Nat /\ published' \in Nat /\ faults' \in 0 .. MaxFaults
  BY <1>1, Bounds DEF mqtt, device, outbox, database, Consistent
<1>3. HistoryGrows
  BY <1>2 DEF HistoryGrows
<1>4. /\ fields' \in Observations
      /\ decisions' \in Seq(Samples) /\ Len(decisions') <= DecisionLimit
      /\ accepted' \subseteq Items /\ forgotten' \subseteq Samples
      /\ Grows
      /\ Remembering' /\ AcceptedOnce' /\ HistoryWasAccepted' /\ LatestAcknowledgedIsKept'
  <2>1. CASE Decided(h, at)
    BY <1>1, <1>2, <2>1, DecisionGrows
  <2>2. CASE StoreUnchanged
    <3>1. Grows /\ AcceptedOnce' /\ Remembering' /\ LatestAcknowledgedIsKept'
      BY <1>2, <1>3, <2>2, StoreStays
    <3>2. HistoryWasAccepted'
      BY <1>2, <2>2 DEF Consistent, HistoryWasAccepted, StoreUnchanged
    <3> QED
      BY <2>2, <3>1, <3>2 DEF Consistent, TypeOK, Observations, StoreUnchanged
  <2> QED
    BY <1>1, <2>1, <2>2
<1>5. CallInv(Failed(h))'
  <2> DEFINE new == Failed(h)
  <2>1. /\ new \in Call /\ new.sample = h.sample /\ new.source = h.source
        /\ new.due = {} /\ IsFiniteSet(new.due)
        /\ new.stage = "failed" /\ new.stage \notin Progressed
    BY FailedCall
  <2>2. CallInv(h)
    BY DEF Consistent, Calls
  <2> HIDE DEF new
  <2>3. CallInv(new)'
    BY <1>2, <1>4, <2>1, <2>2 DEF CallInv, OverMqtt, Grows
  <2> QED
    BY <2>3 DEF new
<1>6. Calls'
  BY <1>1, <1>2, <1>4, <1>5, CallsBecome
<1>7. SentIsHeld'
  BY <1>1, <1>2, FailedCall DEF Consistent, SentIsHeld, Becomes, OverMqtt
<1>8. HeadIsAppended'
  BY <1>2 DEF Consistent, HeadIsAppended
<1>9. TypeOK'
  BY <1>1, <1>2, <1>4, <1>6 DEF Consistent, TypeOK, Observations, mqtt, device, outbox, database,
     Calls, CallInv
<1> QED
  BY <1>4, <1>6, <1>7, <1>8, <1>9 DEF Consistent
-----------------------------------------------------------------------------
(* The outbox *)

\* Only the outbox and the history change, and calls that wait for them.
LEMMA OutboxStep ==
    ASSUME Consistent, UNCHANGED <<mqtt, device, running, store, spooled>>, HistoryGrows,
           queue' \in Seq(Items), Len(queue') <= QueueLimit, queuePoisoned' \in BOOLEAN,
           cycle' \in {"idle", "running", "appended"}, faults' \in 0 .. MaxFaults,
           ToSet(queue') \cup rows' \subseteq accepted, skipped' \subseteq Items,
           Calls', SentIsHeld', HeadIsAppended'
    PROVE  Consistent'
<1>1. StoreUnchanged /\ UNCHANGED <<published, acknowledged, polled>>
  BY DEF store, mqtt, device, StoreUnchanged
<1>2. Remembering' /\ AcceptedOnce' /\ LatestAcknowledgedIsKept'
  BY <1>1, StoreStays, Bounds DEF Consistent
<1>3. HistoryWasAccepted' /\ rows' \subseteq Items
  BY <1>1 DEF HistoryWasAccepted, StoreUnchanged, Consistent, TypeOK
<1>4. TypeOK'
  BY <1>3 DEF Consistent, TypeOK, mqtt, device, store, Calls, CallInv
<1> QED
  BY <1>2, <1>3, <1>4 DEF Consistent

\* Items enter the outbox.
LEMMA EnqueueStep ==
    ASSUME Consistent, NEW h \in handlers, Enqueue(h)
    PROVE  Consistent'
<1> DEFINE new == [h EXCEPT !.stage = "replaying", !.due = {}]
<1>1. /\ h \in Call /\ CallInv(h) /\ h.stage = "decided"
      /\ IsFiniteSet(h.due) /\ h.due \subseteq Items /\ h.due \subseteq accepted
      /\ Additions(h) = {} \/ Fits(h)
      /\ queue' = Queued(h) /\ Becomes(h, new)
      /\ UNCHANGED <<mqtt, device, running, store, queuePoisoned, database, spooled, faults>>
      /\ cycle' = IF cycle = "idle" THEN "running" ELSE cycle
  BY DEF Enqueue, Consistent, TypeOK, Calls, CallInv
<1>2. /\ queue' \in Seq(Items) /\ Len(queue') = Len(queue) + Cardinality(Additions(h))
      /\ ToSet(queue') = ToSet(queue) \cup Additions(h)
      /\ queue # << >> => queue' # << >> /\ Head(queue') = Head(queue)
      /\ Additions(h) \subseteq h.due
      /\ Additions(h) = {} => Cardinality(Additions(h)) = 0
  BY <1>1, AdditionsAreQueued DEF Consistent, TypeOK
<1>3. Len(queue') <= QueueLimit
  <2>1. Len(queue) \in Nat /\ Len(queue) <= QueueLimit
    BY DEF Consistent, TypeOK
  <2> QED
    BY <1>1, <1>2, <2>1 DEF Fits
<1>4. /\ HistoryGrows /\ StoreUnchanged /\ UNCHANGED <<published, polled>>
      /\ UNCHANGED <<sent, acknowledged, rows, skipped>>
  BY <1>1, <1>2 DEF HistoryGrows, StoreUnchanged, store, mqtt, device, database
<1>5. /\ new \in Call /\ new.sample = h.sample /\ new.source = h.source
      /\ new.current = h.current
      /\ new.stage = "replaying" /\ new.due = {}
  BY <1>1 DEF Call
<1>6. ASSUME NEW i \in h.due
      PROVE  \E q \in ToSet(queue') : SameSample(i, q)
  BY <1>2 DEF Additions, SameSample
<1>7. ASSUME NEW f \in OwnFields(h), h.sample \notin forgotten
      PROVE  Kept(h.sample, h.source, f)'
  <2>1. CASE Kept(h.sample, h.source, f)
    BY <1>4, <2>1, HistoryKeeps
  <2>2. CASE \E i \in h.due : Has(i, h.sample, h.source, f)
    BY <1>6, <2>2 DEF Has, Kept, SameSample
  <2> QED
    BY <1>1, <1>7, <2>1, <2>2 DEF CallInv, Progressed
<1>8. h.sample \in Ever /\ IsFiniteSet({})
  BY <1>1, FS_EmptySet DEF CallInv, Progressed
<1>9. Becomes(h, new)
  BY <1>1
<1> HIDE DEF new
<1>10. Calls' /\ SentIsHeld'
  BY <1>4, <1>5, <1>7, <1>8, <1>9, CallGoesOn
<1>11. HeadIsAppended'
  BY <1>1, <1>2, <1>4 DEF Consistent, HeadIsAppended
<1>12. ToSet(queue') \cup rows' \subseteq accepted
  BY <1>1, <1>2, <1>4 DEF Consistent, HistoryWasAccepted
<1> QED
  BY <1>1, <1>2, <1>3, <1>4, <1>10, <1>11, <1>12, OutboxStep DEF Consistent, TypeOK

\* A batch of the outbox failed, written or not.
LEMMA EnqueueFailsStep ==
    ASSUME Consistent, NEW h \in handlers, EnqueueFails(h)
    PROVE  Consistent'
<1>1. /\ h.stage = "decided"
      /\ IsFiniteSet(h.due) /\ h.due \subseteq Items /\ h.due \subseteq accepted
      /\ Fits(h) /\ Fault
      /\ queue' \in {queue, Queued(h)} /\ Becomes(h, Failed(h)) /\ queuePoisoned' = TRUE
      /\ UNCHANGED <<mqtt, device, running, store, cycle, database, spooled>>
  BY DEF EnqueueFails, Failed, Consistent, TypeOK, Calls, CallInv, Call
<1>2. /\ queue' \in Seq(Items) /\ Len(queue') <= QueueLimit
      /\ ToSet(queue') \subseteq ToSet(queue) \cup h.due /\ ToSet(queue) \subseteq ToSet(queue')
      /\ queue # << >> => queue' # << >> /\ Head(queue') = Head(queue)
  BY <1>1, AdditionsAreQueued DEF Consistent, TypeOK, Fits
<1>3. /\ HistoryGrows /\ StoreUnchanged /\ UNCHANGED <<published, polled>>
      /\ UNCHANGED <<sent, acknowledged, rows, skipped>>
  BY <1>1, <1>2 DEF HistoryGrows, StoreUnchanged, store, mqtt, device, database
<1>4. Calls' /\ SentIsHeld'
  BY <1>1, <1>3, CallFails
<1>5. HeadIsAppended'
  BY <1>1, <1>2, <1>3 DEF Consistent, HeadIsAppended
<1>6. ToSet(queue') \cup rows' \subseteq accepted
  BY <1>1, <1>2, <1>3 DEF Consistent, HistoryWasAccepted
<1> QED
  BY <1>1, <1>2, <1>3, <1>4, <1>5, <1>6, OutboxStep, Bounds DEF Consistent, TypeOK

\* Calls that waited for the cycle rely on nothing but what is kept.
LEMMA CycleEnds ==
    ASSUME Consistent, EndsCycle, StoreUnchanged, HistoryGrows, UNCHANGED <<mqtt, device>>
    PROVE  Calls' /\ SentIsHeld' /\ HeadIsAppended'
<1>1. /\ Grows /\ Ever' = Ever /\ published \in Nat /\ published' = published
      /\ polled' = polled /\ kind' = kind
  BY StoreStays, Bounds DEF Consistent, mqtt, device
<1>2. ASSUME NEW h \in handlers
      PROVE  CallInv(IF h.stage = "replaying" THEN Persisted(h) ELSE h)'
  <2>1. CASE h.stage = "replaying"
    <3>1. PICK new : new = Persisted(h)
      OBVIOUS
    <3>2. /\ new \in Call /\ new.sample = h.sample /\ new.source = h.source
          /\ new.due = h.due /\ new.stage \in {"capturing", "done"}
          /\ new.stage = "capturing" => OverMqtt(h)
      BY <3>1, PersistedCall
    <3>3. CallInv(h)' /\ h.sample \in Samples
      BY <1>1, CallStays DEF Consistent, Calls, CallInv, Call
    <3>4. CallInv(new)'
      BY <2>1, <3>2, <3>3 DEF CallInv, OverMqtt, OwnFields, Progressed
    <3> QED
      BY <1>1, <2>1, <3>1, <3>4 DEF Persisted, Projected, OverMqtt
  <2>2. CASE h.stage # "replaying"
    BY <1>1, <2>2, CallStays DEF Consistent, Calls
  <2> QED
    BY <2>1, <2>2
<1>3. Calls'
  <2>1. ASSUME NEW k \in handlers'
        PROVE  CallInv(k)'
    <3>1. PICK h \in handlers : k = IF h.stage = "replaying" THEN Persisted(h) ELSE h
      BY DEF EndsCycle
    <3> QED
      BY <1>1, <1>2, <3>1 DEF Persisted, Projected, OverMqtt
  <2> QED
    BY <2>1 DEF Calls
<1>4. SentIsHeld'
  <2>1. ASSUME NEW m \in sent', m \notin acknowledged'
        PROVE  \E k \in handlers' : OverMqtt(k) /\ k.sample = m /\ k.current
    <3>1. PICK h \in handlers : OverMqtt(h) /\ h.sample = m /\ h.current
      BY <2>1 DEF Consistent, SentIsHeld, mqtt, device
    <3>2. PICK k : k = IF h.stage = "replaying" THEN Persisted(h) ELSE h
      OBVIOUS
    <3>3. k \in handlers' /\ k.sample = h.sample /\ k.source = h.source /\ k.current = h.current
      BY <3>2, PersistedCall DEF EndsCycle
    <3> QED
      BY <3>1, <3>3 DEF OverMqtt
  <2> QED
    BY <2>1 DEF SentIsHeld, OverMqtt
<1> QED
  BY <1>3, <1>4 DEF HeadIsAppended, EndsCycle

\* The oldest item was accepted.
LEMMA HeadOfQueue ==
    ASSUME Consistent, queue # << >>
    PROVE  /\ Head(queue) \in Items /\ Head(queue) \in accepted
           /\ Tail(queue) \in Seq(Items) /\ Len(Tail(queue)) <= QueueLimit
           /\ ToSet(queue) = ToSet(Tail(queue)) \cup {Head(queue)}
<1>1. queue \in Seq(Items) /\ Len(queue) <= QueueLimit /\ QueueLimit \in Nat
  BY ObservationAssumption DEF Consistent, TypeOK
<1>2. /\ Head(queue) \in Items /\ Tail(queue) \in Seq(Items)
      /\ Len(Tail(queue)) = Len(queue) - 1
      /\ ToSet(queue) = ToSet(Tail(queue)) \cup {Head(queue)}
  BY <1>1, ToSetTail
<1>3. Len(Tail(queue)) <= QueueLimit
  BY <1>1, <1>2
<1> QED
  BY <1>2, <1>3 DEF Consistent, HistoryWasAccepted

\* appendIfDue adds to history what the queue holds.
LEMMA AppendGrows ==
    ASSUME Consistent, queue # << >>, AppendIfDue(Head(queue)), UNCHANGED queue
    PROVE  /\ HistoryGrows /\ Head(queue) \in rows' \cup skipped'
           /\ ToSet(queue') \cup rows' \subseteq accepted /\ skipped' \subseteq Items
BY HeadOfQueue DEF AppendIfDue, HistoryGrows, Consistent, TypeOK, HistoryWasAccepted

\* The oldest item reaches the database.
LEMMA AppendHeadStep ==
    ASSUME Consistent, AppendHead
    PROVE  Consistent'
<1>1. /\ HistoryGrows /\ Head(queue) \in rows' \cup skipped' /\ queue # << >>
      /\ ToSet(queue') \cup rows' \subseteq accepted /\ skipped' \subseteq Items
  BY AppendGrows DEF AppendHead, outbox
<1>2. /\ UNCHANGED <<mqtt, device, handlers, running, store, outbox, spooled, faults>>
      /\ cycle' = "appended"
  BY DEF AppendHead
<1>3. StoreUnchanged /\ UNCHANGED <<published, polled>> /\ published \in Nat
  BY <1>2, Bounds DEF StoreUnchanged, store, mqtt, device, Consistent
<1>4. Calls'
  BY <1>1, <1>2, <1>3, StoreStays, CallStays DEF Consistent, Calls
<1>5. SentIsHeld' /\ HeadIsAppended'
  BY <1>1, <1>2 DEF Consistent, SentIsHeld, HeadIsAppended, mqtt, device, outbox
<1> QED
  BY <1>1, <1>2, <1>4, <1>5, OutboxStep DEF Consistent, TypeOK, outbox

\* The database failed, whether or not it committed.
LEMMA AppendFailsStep ==
    ASSUME Consistent, AppendFails
    PROVE  Consistent'
<1>1. /\ UNCHANGED <<mqtt, device, running, store, outbox, spooled>>
      /\ EndsCycle /\ Fault
  BY DEF AppendFails
<1>2. /\ HistoryGrows
      /\ ToSet(queue') \cup rows' \subseteq accepted /\ skipped' \subseteq Items
  <2>1. CASE UNCHANGED database
    BY <1>1, <2>1 DEF outbox, database, HistoryGrows, Consistent, TypeOK, HistoryWasAccepted
  <2>2. CASE AppendIfDue(Head(queue))
    BY <1>1, <2>2, AppendGrows DEF AppendFails, outbox
  <2> QED
    BY <2>1, <2>2 DEF AppendFails
<1>3. StoreUnchanged
  BY <1>1 DEF StoreUnchanged, store
<1>4. Calls' /\ SentIsHeld' /\ HeadIsAppended'
  BY <1>1, <1>2, <1>3, CycleEnds
<1> QED
  BY <1>1, <1>2, <1>4, OutboxStep, Bounds DEF Consistent, TypeOK, outbox, EndsCycle

\* The timer starts a cycle.
LEMMA StartCycleStep ==
    ASSUME Consistent, StartCycle
    PROVE  Consistent'
<1>1. /\ UNCHANGED <<mqtt, device, handlers, running, store, outbox, database, spooled, faults>>
      /\ cycle' = "running"
  BY DEF StartCycle
<1>2. /\ StoreUnchanged /\ HistoryGrows /\ UNCHANGED <<published, polled>> /\ published \in Nat
  BY <1>1, Bounds DEF StoreUnchanged, HistoryGrows, store, mqtt, device, outbox,
     database, Consistent
<1>3. Calls'
  BY <1>1, <1>2, StoreStays, CallStays DEF Consistent, Calls
<1>4. SentIsHeld'
  BY <1>1 DEF Consistent, SentIsHeld, mqtt, device
<1> QED
  BY <1>1, <1>3, <1>4, OnlyCalls DEF Consistent, TypeOK

\* A cycle ends, and those who waited go on.
LEMMA EndCycleStep ==
    ASSUME Consistent, EndCycle
    PROVE  Consistent'
<1>1. /\ UNCHANGED <<mqtt, device, running, store, outbox, database, spooled, faults>>
      /\ EndsCycle /\ cycle' = "idle"
  BY DEF EndCycle, EndsCycle
<1>2. StoreUnchanged /\ HistoryGrows
  BY <1>1 DEF StoreUnchanged, HistoryGrows, store, outbox, database
<1>3. Calls' /\ SentIsHeld'
  BY <1>1, <1>2, CycleEnds
<1> QED
  BY <1>1, <1>3, OnlyCalls DEF Consistent, TypeOK

\* The head leaves the queue when it is in the database.
LEMMA TailKeeps ==
    ASSUME Consistent, cycle = "appended", queue' \in {queue, Tail(queue)}, UNCHANGED database
    PROVE  /\ HistoryGrows /\ queue' \in Seq(Items) /\ Len(queue') <= QueueLimit
           /\ ToSet(queue') \cup rows' \subseteq accepted /\ skipped' \subseteq Items
<1>1. queue # << >> /\ Head(queue) \in rows \cup skipped
  BY DEF Consistent, HeadIsAppended
<1>2. /\ Tail(queue) \in Seq(Items) /\ Len(Tail(queue)) <= QueueLimit
      /\ ToSet(queue) = ToSet(Tail(queue)) \cup {Head(queue)}
  BY <1>1, HeadOfQueue
<1> QED
  BY <1>1, <1>2 DEF HistoryGrows, database, Consistent, TypeOK, HistoryWasAccepted

\* The oldest item leaves the outbox, or may have left it.
LEMMA CompleteStep ==
    ASSUME Consistent, Complete \/ CompleteFails
    PROVE  Consistent'
<1>1. /\ UNCHANGED <<mqtt, device, running, store, database, spooled>>
      /\ cycle = "appended" /\ queue' \in {queue, Tail(queue)}
      /\ queuePoisoned' \in BOOLEAN /\ (Fault \/ UNCHANGED faults)
      /\ EndsCycle \/ (UNCHANGED handlers /\ cycle' = "running")
  BY DEF Complete, CompleteFails, Consistent, TypeOK
<1>2. /\ HistoryGrows /\ queue' \in Seq(Items) /\ Len(queue') <= QueueLimit
      /\ ToSet(queue') \cup rows' \subseteq accepted /\ skipped' \subseteq Items
  BY <1>1, TailKeeps
<1>3. StoreUnchanged /\ UNCHANGED <<published, polled>> /\ published \in Nat
  BY <1>1, Bounds DEF StoreUnchanged, store, mqtt, device, Consistent
<1>4. /\ Calls' /\ SentIsHeld' /\ HeadIsAppended'
      /\ cycle' \in {"idle", "running"}
  <2>1. CASE EndsCycle
    BY <1>1, <1>2, <1>3, <2>1, CycleEnds DEF EndsCycle
  <2>2. CASE UNCHANGED handlers /\ cycle' = "running"
    BY <1>1, <1>2, <1>3, <2>2, StoreStays, CallStays
       DEF Consistent, Calls, SentIsHeld, HeadIsAppended, mqtt, device
  <2> QED
    BY <1>1, <2>1, <2>2
<1> QED
  BY <1>1, <1>2, <1>4, OutboxStep, Bounds DEF Consistent, TypeOK
-----------------------------------------------------------------------------
(* Deliveries, polls and acknowledgements *)

\* Only the session and the calls change.
LEMMA DeliveryStep ==
    ASSUME Consistent, UNCHANGED <<store, outbox, database, spooled>>,
           published' \in 0 .. MaxPublished, published <= published',
           acknowledged' \subseteq 1 .. published', sent' \subseteq 1 .. published',
           connected' \in BOOLEAN, running' \in BOOLEAN, kind' = kind,
           polled' \in {0} \cup PolledOf[kind], polled <= polled',
           cycle' = cycle, faults' \in 0 .. MaxFaults,
           acknowledged' = acknowledged \/ (Remembering' /\ LatestAcknowledgedIsKept'),
           Calls', SentIsHeld'
    PROVE  Consistent'
<1>1. StoreUnchanged /\ HistoryGrows
  BY DEF store, outbox, database, StoreUnchanged, HistoryGrows
<1>2. Remembering' /\ AcceptedOnce' /\ LatestAcknowledgedIsKept'
  <2>1. polled' \in Nat
    BY ObservationAssumption DEF Consistent, TypeOK
  <2> QED
    BY <1>1, <2>1, StoreStays
<1>3. HistoryWasAccepted' /\ HeadIsAppended'
  BY DEF Consistent, HistoryWasAccepted, HeadIsAppended, outbox, database, store
<1>4. TypeOK'
  BY DEF Consistent, TypeOK, store, outbox, database, Calls, CallInv
<1> QED
  BY <1>2, <1>3, <1>4 DEF Consistent

\* A step that is no poll.
LEMMA NotPolled ==
    ASSUME TypeOK, UNCHANGED device
    PROVE  /\ kind' = kind /\ polled' = polled /\ polled <= polled'
           /\ polled' \in {0} \cup PolledOf[kind]
BY Bounds DEF TypeOK, device

\* The calls that were running, and those of a new delivery.
LEMMA CallsStay ==
    ASSUME Consistent, UNCHANGED <<store, outbox, database>>,
           published' \in Nat, published <= published',
           polled' = polled \/ (polled' \in Nat /\ polled <= polled'),
           NEW h, CallInv(h), OverMqtt(h) \/ polled' = polled
    PROVE  CallInv(h)'
<1>1. StoreUnchanged /\ HistoryGrows
  BY DEF store, outbox, database, StoreUnchanged, HistoryGrows
<1> QED
  BY <1>1, StoreStays, CallStays, Bounds DEF Consistent

\* A new call has handed over nothing and has nothing to hand over.
LEMMA ReceivedCall ==
    ASSUME NEW s \in Samples, NEW source \in Sources
    PROVE  /\ Received(s, source) \in Call
           /\ Received(s, source).sample = s /\ Received(s, source).source = source
           /\ Received(s, source).current /\ Received(s, source).stage = "received"
           /\ Received(s, source).due = {} /\ IsFiniteSet({})
<1>1. IsFiniteSet({})
  BY FS_EmptySet
<1> QED
  BY <1>1 DEF Received, Call

\* The broker and the process come and go.
LEMMA PublishStep ==
    ASSUME Consistent, Publish \/ Connect \/ Restart
    PROVE  Consistent'
<1>1. /\ UNCHANGED <<acknowledged, sent, device, handlers, store, outbox, cycle, database,
                     spooled, faults>>
      /\ published' \in {published, published + 1} /\ published' <= MaxPublished
      /\ connected' \in BOOLEAN /\ running' \in BOOLEAN
  <2>1. published \in Nat /\ MaxPublished \in Nat /\ published <= MaxPublished
    BY Lengths DEF Consistent
  <2>2. CASE Publish
    BY <2>1, <2>2 DEF Publish, Consistent, TypeOK
  <2>3. CASE Connect \/ Restart
    BY <2>1, <2>3 DEF Connect, Restart, mqtt, device, Consistent, TypeOK
  <2> QED
    BY <2>2, <2>3
<1>2. published \in Nat /\ published' \in 0 .. MaxPublished /\ published <= published'
  BY <1>1, Lengths DEF Consistent
<1>3. 1 .. published \subseteq 1 .. published'
  BY <1>2
<1>4. Calls'
  BY <1>1, <1>2, CallsStay DEF Consistent, Calls, device
<1>5. SentIsHeld'
  BY <1>1 DEF Consistent, SentIsHeld
<1>6. /\ kind' = kind /\ polled <= polled' /\ polled' \in {0} \cup PolledOf[kind]
  BY <1>1, NotPolled DEF Consistent
<1> QED
  BY <1>1, <1>2, <1>3, <1>4, <1>5, <1>6, DeliveryStep DEF Consistent, TypeOK

\* Packets are delivered in order: all before this one were decided.
LEMMA DeliverStep ==
    ASSUME Consistent, NEW m \in Published, Deliver(m)
    PROVE  Consistent'
<1>1. /\ UNCHANGED <<published, acknowledged, connected, device, running, store, outbox, cycle,
                     database, spooled, faults>>
      /\ m \in 1 .. published /\ \A k \in 1 .. (m - 1) : k \in acknowledged \cup sent
      /\ ~\E h \in handlers : OverMqtt(h) /\ h.current
      /\ sent' = sent \cup {m} /\ handlers' = handlers \cup {Received(m, "mqtt")}
  BY DEF Deliver
<1>2. published \in Nat /\ 1 .. published \subseteq Published /\ Published \subseteq Samples
  BY Lengths, SamplesAreNumbers DEF Consistent
<1>3. sent \subseteq acknowledged
  BY <1>1, <1>2 DEF Consistent, SentIsHeld, TypeOK, OverMqtt
<1>4. 1 .. (m - 1) \subseteq Ever
  BY <1>1, <1>3 DEF Consistent, Remembering
<1>new. PICK new : new = Received(m, "mqtt")
  OBVIOUS
<1>5. CallInv(new) /\ new.sample = m /\ new.source = "mqtt" /\ new.current
  <2>1. /\ new \in Call /\ new.sample = m /\ new.source = "mqtt" /\ new.current
        /\ new.stage = "received" /\ new.due = {} /\ IsFiniteSet({})
    BY <1>1, <1>2, <1>new, ReceivedCall DEF Sources
  <2>2. m <= published
    BY <1>1
  <2> QED
    BY <1>4, <2>1, <2>2 DEF CallInv, OverMqtt, Progressed
<1>6. Calls'
  <2>1. \A h \in handlers' : CallInv(h)
    BY <1>1, <1>new, <1>5 DEF Consistent, Calls
  <2>2. polled' = polled
    BY <1>1 DEF device
  <2> QED
    BY <1>1, <1>2, <2>1, <2>2, CallsStay DEF Calls
<1>7. SentIsHeld'
  BY <1>1, <1>new, <1>5 DEF Consistent, SentIsHeld, OverMqtt
<1>8. /\ kind' = kind /\ polled <= polled' /\ polled' \in {0} \cup PolledOf[kind]
  BY <1>1, NotPolled DEF Consistent
<1> QED
  BY <1>1, <1>2, <1>6, <1>7, <1>8, DeliveryStep DEF Consistent, TypeOK

\* A poll hands its sample to the ingress.
LEMMA PollStep ==
    ASSUME Consistent, NEW p \in PolledOf[kind], Poll(p)
    PROVE  Consistent'
<1>1. /\ UNCHANGED <<mqtt, kind, running, store, outbox, cycle, database, spooled, faults>>
      /\ polled' = p /\ p >= polled /\ \A h \in handlers : OverMqtt(h)
      /\ handlers' = handlers \cup {Received(p, "http")}
  BY DEF Poll
<1>2. p \in Samples /\ p \in Nat /\ published \in Nat /\ polled \in Nat /\ polled <= p
  <2>1. p \in Samples
    BY DEF Samples, Consistent, TypeOK
  <2> QED
    BY <1>1, <2>1, SamplesAreNumbers, Bounds DEF Consistent
<1>new. PICK new : new = Received(p, "http")
  OBVIOUS
<1>3. /\ new \in Call /\ new.sample = p /\ new.source = "http"
      /\ new.stage = "received" /\ new.due = {} /\ IsFiniteSet({})
  BY <1>2, <1>new, ReceivedCall DEF Sources
<1>4. CallInv(new)'
  BY <1>1, <1>3 DEF CallInv, OverMqtt, Progressed
<1>5. Calls'
  <2>1. \A h \in handlers : CallInv(h)'
    BY <1>1, <1>2, CallsStay DEF Consistent, Calls, mqtt
  <2> QED
    BY <1>1, <1>new, <1>4, <2>1 DEF Calls
<1>6. SentIsHeld'
  BY <1>1 DEF Consistent, SentIsHeld, OverMqtt, mqtt
<1> QED
  BY <1>1, <1>2, <1>5, <1>6, DeliveryStep DEF Consistent, TypeOK, mqtt

\* The connection is closed; its calls go on without it.
LEMMA CloseStep ==
    ASSUME Consistent, NEW calls \in SUBSET handlers, Close(calls), Fault \/ UNCHANGED faults,
           UNCHANGED <<published, acknowledged, device, running, store, outbox, cycle, database,
                       spooled>>
    PROVE  Consistent'
<1>1. published \in Nat
  BY Lengths DEF Consistent
<1>2. ASSUME NEW h \in calls
      PROVE  CallInv([h EXCEPT !.current = ~OverMqtt(h)])'
  <2>1. PICK new : new = [h EXCEPT !.current = ~OverMqtt(h)]
    OBVIOUS
  <2>2. h \in Call /\ CallInv(h)'
    BY <1>1, CallsStay DEF Consistent, TypeOK, Calls, device
  <2>3. /\ new \in Call /\ new.sample = h.sample /\ new.source = h.source
        /\ new.due = h.due /\ new.stage = h.stage
    BY <2>1, <2>2 DEF Call, OverMqtt
  <2>4. CallInv(new)'
    BY <2>2, <2>3 DEF CallInv, OverMqtt, OwnFields
  <2> QED
    BY <2>1, <2>4 DEF OverMqtt
<1>3. Calls'
  BY <1>2 DEF Calls, Close, OverMqtt
<1>4. SentIsHeld' /\ sent' = {} /\ connected' = FALSE
  BY DEF SentIsHeld, Close
<1>5. /\ faults' \in 0 .. MaxFaults /\ published' = published /\ published <= published'
      /\ polled' = polled /\ kind' = kind /\ polled <= polled'
  BY <1>1, Bounds DEF Consistent, TypeOK, device
<1>6. TypeOK
  BY DEF Consistent
<1> QED
  BY <1>3, <1>4, <1>5, <1>6, DeliveryStep DEF TypeOK

\* A call ends that has nobody to answer.
LEMMA DropStep ==
    ASSUME Consistent, NEW h \in handlers, Drop(h)
    PROVE  Consistent'
<1>1. /\ UNCHANGED <<mqtt, device, running, store, outbox, cycle, database, spooled, faults>>
      /\ handlers' = handlers \ {h} /\ (~OverMqtt(h) \/ ~h.current)
  BY DEF Drop
<1>2. published \in Nat /\ 1 .. published \subseteq Published
  BY Lengths DEF Consistent
<1>3. Calls'
  BY <1>1, <1>2, CallsStay DEF Consistent, Calls, mqtt, device
<1>4. SentIsHeld'
  BY <1>1, <1>2 DEF Consistent, TypeOK, SentIsHeld, OverMqtt, mqtt, device
<1> QED
  BY <1>1, <1>3, <1>4, OnlyCalls DEF Consistent, TypeOK

\* What is acknowledged was decided and handed over.
LEMMA AcknowledgeStep ==
    ASSUME Consistent, NEW h \in handlers, Acknowledge(h)
    PROVE  Consistent'
<1>1. /\ UNCHANGED <<published, connected, sent, device, running, store, outbox, cycle, database,
                     spooled, faults>>
      /\ OverMqtt(h) /\ h.stage = "done"
      /\ acknowledged' = acknowledged \cup {h.sample} /\ handlers' = handlers \ {h}
  BY DEF Acknowledge
<1>2. published \in Nat /\ 1 .. published \subseteq Published /\ Published \subseteq Nat \ {0}
  BY Lengths, SamplesAreNumbers DEF Consistent
<1>3. /\ h.sample \in 1 .. published /\ h.sample \in Ever
      /\ \A f \in OwnFields(h) : h.sample \notin forgotten => Kept(h.sample, h.source, f)
  <2>1. CallInv(h) /\ h.sample \in Samples
    BY DEF Consistent, TypeOK, Calls, Call
  <2>2. h.sample \in Nat \ {0} /\ h.sample <= published
    BY <1>1, <2>1, SamplesAreNumbers DEF CallInv
  <2> QED
    BY <1>1, <1>2, <2>1, <2>2 DEF CallInv, Progressed
<1>4. Calls'
  BY <1>1, <1>2, CallsStay DEF Consistent, Calls, device
<1>5. SentIsHeld'
  BY <1>1 DEF Consistent, SentIsHeld, OverMqtt
<1>6. StoreUnchanged /\ Ever' = Ever /\ UNCHANGED <<queue, rows, skipped, polled>>
  BY <1>1 DEF StoreUnchanged, Ever, store, outbox, database, device
<1>7. Remembering'
  BY <1>1, <1>3, <1>6 DEF Consistent, Remembering, Observed, StoreUnchanged
<1>8. LatestAcknowledgedIsKept'
  BY <1>1, <1>3, <1>6
     DEF Consistent, LatestAcknowledgedIsKept, StoreUnchanged, OwnFields, OverMqtt, Kept, Has
<1>9. TypeOK
  BY DEF Consistent
<1>10. acknowledged' \subseteq 1 .. published' /\ published <= published'
  <2>1. acknowledged \subseteq 1 .. published /\ h.sample \in 1 .. published
    BY <1>3, <1>9 DEF TypeOK
  <2>2. published' = published /\ acknowledged' = acknowledged \cup {h.sample}
    BY <1>1
  <2>3. published <= published'
    BY <1>2, <2>2
  <2> QED
    BY <2>1, <2>2, <2>3
<1>11. /\ kind' = kind /\ polled <= polled' /\ polled' \in {0} \cup PolledOf[kind]
  BY <1>1, <1>9, NotPolled
<1> QED
  BY <1>1, <1>4, <1>5, <1>7, <1>8, <1>9, <1>10, <1>11, DeliveryStep DEF TypeOK

\* The process ends: calls are gone, disks stay.
LEMMA StopStep ==
    ASSUME Consistent, Stop, Fault \/ UNCHANGED faults
    PROVE  Consistent'
<1>1. StoreUnchanged /\ HistoryGrows /\ UNCHANGED <<published, acknowledged, polled>>
  BY DEF Stop, StoreUnchanged, HistoryGrows, database, device
<1>2. Remembering' /\ AcceptedOnce' /\ LatestAcknowledgedIsKept'
  BY <1>1, StoreStays, Bounds DEF Consistent
<1>3. Calls' /\ SentIsHeld' /\ HeadIsAppended'
  BY DEF Stop, Calls, SentIsHeld, HeadIsAppended
<1>4. HistoryWasAccepted'
  BY DEF Consistent, HistoryWasAccepted, Stop, database
<1>5. TypeOK'
  BY Bounds DEF Consistent, TypeOK, Stop, database, device
<1> QED
  BY <1>2, <1>3, <1>4, <1>5 DEF Consistent
-----------------------------------------------------------------------------
(* The invariant holds *)

\* Initially nothing is known.
LEMMA InitIsConsistent == Init => Consistent
<1> SUFFICES ASSUME Init
             PROVE  Consistent
  OBVIOUS
<1>1. ToSet(<< >>) = {} /\ << >> \in Seq(Samples) /\ << >> \in Seq(Items) /\ Len(<< >>) = 0
  BY DEF ToSet
<1>2. /\ {MaxPublished, QueueLimit, MaxFaults} \subseteq Nat
      /\ {DecisionLimit, MaxTime} \subseteq Nat \ {0}
  BY ObservationAssumption
<1>3. /\ 0 \in 0 .. MaxPublished /\ 0 \in 0 .. MaxFaults /\ 1 \in Times
      /\ 0 <= QueueLimit /\ 0 <= DecisionLimit
  BY <1>2 DEF Times
<1>4. TypeOK
  BY <1>1, <1>3 DEF Init, TypeOK
<1>5. Remembering /\ AcceptedOnce /\ HistoryWasAccepted /\ LatestAcknowledgedIsKept
  BY <1>1 DEF Init, Remembering, Ever, AcceptedOnce, HistoryWasAccepted, LatestAcknowledgedIsKept
<1>6. HeadIsAppended /\ SentIsHeld /\ Calls
  BY DEF Init, HeadIsAppended, SentIsHeld, Calls
<1> QED
  BY <1>4, <1>5, <1>6 DEF Consistent

\* Every step keeps the invariant.
LEMMA NextIsConsistent == Consistent /\ [Next]_vars => Consistent'
<1> SUFFICES ASSUME Consistent, [Next]_vars
             PROVE  Consistent'
  OBVIOUS
<1>1. CASE Publish \/ Connect \/ Restart
  BY <1>1, PublishStep
<1>2. CASE Disconnect
  BY <1>2, CloseStep DEF Disconnect
<1>3. CASE \E m \in Published : Deliver(m)
  BY <1>3, DeliverStep
<1>4. CASE \E p \in PolledOf[kind] : Poll(p)
  BY <1>4, PollStep
<1>5. ASSUME NEW h \in handlers, Handle(h)
      PROVE  Consistent'
  <2>1. CASE \E at \in Times : Decide(h, at) \/ DecideFails(h, at)
    BY <2>1, DecideStep, DecideFailsStep
  <2>2. CASE Duplicate(h)
    BY <2>2, DuplicateStep
  <2>3. CASE Refused(h) \/ EnqueueRefused(h) \/ CaptureFails(h)
    BY <2>3, RefusedStep
  <2>4. CASE NothingDue(h)
    BY <2>4, NothingDueStep
  <2>5. CASE Enqueue(h)
    BY <2>5, EnqueueStep
  <2>6. CASE EnqueueFails(h)
    BY <2>6, EnqueueFailsStep
  <2>7. CASE Capture(h)
    BY <2>7, CaptureStep
  <2>8. CASE Acknowledge(h)
    BY <2>8, AcknowledgeStep
  <2>9. CASE Pause(h)
    <3>1. handlers \ {h} \in SUBSET handlers
      OBVIOUS
    <3> QED
      BY <2>9, <3>1, CloseStep DEF Pause
  <2>10. CASE Drop(h)
    BY <2>10, DropStep
  <2> QED
    BY <1>5, <2>1, <2>2, <2>3, <2>4, <2>5, <2>6, <2>7, <2>8, <2>9, <2>10 DEF Handle
<1>6. CASE Replay
  BY <1>6, StartCycleStep, AppendHeadStep, AppendFailsStep, EndCycleStep, CompleteStep
     DEF Replay
<1>7. CASE Crash \/ StopPoisoned
  BY <1>7, StopStep DEF Crash, StopPoisoned
<1>8. CASE UNCHANGED vars
  <2>1. UNCHANGED <<mqtt, device, handlers, running, store, outbox, cycle, database, spooled,
                    faults>>
    BY <1>8 DEF vars
  <2>2. published \in Nat /\ published' = published /\ polled' = polled
    BY <2>1, Lengths DEF Consistent, mqtt, device
  <2>3. Calls'
    BY <2>1, <2>2, CallsStay DEF Consistent, Calls
  <2>4. SentIsHeld'
    BY <2>1 DEF Consistent, SentIsHeld, mqtt, device
  <2> QED
    BY <2>1, <2>3, <2>4, OnlyCalls DEF Consistent, TypeOK
<1> QED
  BY <1>1, <1>2, <1>3, <1>4, <1>5, <1>6, <1>7, <1>8 DEF Next

\* What the state store, the outbox, the history and every running call know
\* of each other holds in every reachable state (process of
\* DeviceObservationStateStore, persistAccepted, the outbox and its replay).
THEOREM StoresAgree == Spec => []Consistent
BY InitIsConsistent, NextIsConsistent, PTL DEF Spec
-----------------------------------------------------------------------------
(* Theorems *)

\* Types, and the limits of retention and outbox (config.maxPendingWrites).
THEOREM TypeCorrect == Spec => []TypeOK
<1>1. Consistent => TypeOK
  BY DEF Consistent
<1> QED
  BY <1>1, StoresAgree, PTL

\* Neither a redelivery nor a restart makes up a row of the history (the
\* fields of a duplicate in ingestUsingAuthority).
THEOREM HistoryIsAccepted == Spec => []HistoryWasAccepted
<1>1. Consistent => HistoryWasAccepted
  BY DEF Consistent
<1> QED
  BY <1>1, StoresAgree, PTL

\* What was acknowledged is kept for history, whatever failed in between (the
\* retry of history for duplicate evidence).
THEOREM AcknowledgedIsKept == Spec => []LatestAcknowledgedIsKept
<1>1. Consistent => LatestAcknowledgedIsKept
  BY DEF Consistent
<1> QED
  BY <1>1, StoresAgree, PTL

\* The outbox is stopped by a conflict only after retention forgot a sample
\* (ConflictingMeasurementSampleError).
THEOREM ConflictsWereForgotten == Spec => []OnlyForgottenSamplesConflict
<1>1. Consistent => OnlyForgottenSamplesConflict
  BY DEF Consistent, HistoryWasAccepted, AcceptedOnce, OnlyForgottenSamplesConflict, Conflicts,
         SameSample
<1> QED
  BY <1>1, StoresAgree, PTL

\* Only a decision changes a field.
LEMMA FieldsAreDecided ==
    ASSUME Next
    PROVE  \/ UNCHANGED <<fields, forgotten>>
           \/ \E h \in handlers, at \in Times : Decides(h, at) /\ Decided(h, at)
BY DEF Next, Publish, Connect, Disconnect, Deliver, Poll, Handle, Decide, DecideFails, Duplicate,
       Refused, NothingDue, Enqueue, EnqueueRefused, EnqueueFails, Capture, CaptureFails,
       Acknowledge, Pause, Drop, Replay, StartCycle, AppendHead, AppendFails, EndCycle, Complete,
       CompleteFails, Crash, StopPoisoned, Stop, Restart, store

\* An older sample never replaces a newer one of the same source while it is
\* remembered (the evidence index).
THEOREM NoSampleComesBack == Spec => OnlyForgottenSamplesComeBack
<1> DEFINE Step ==
      \A f \in Fields :
          fields'[f] # fields[f] /\ fields'[f].source = fields[f].source =>
              \/ fields'[f].sample > fields[f].sample
              \/ fields'[f].sample \in forgotten
<1>1. ASSUME Consistent, Next
      PROVE  Step
  <2>1. CASE UNCHANGED <<fields, forgotten>>
    BY <2>1
  <2>2. ASSUME NEW h \in handlers, NEW at \in Times, Decides(h, at), Decided(h, at),
               NEW f \in Fields, fields'[f] # fields[f], fields'[f].source = fields[f].source
        PROVE  \/ fields'[f].sample > fields[f].sample
               \/ fields'[f].sample \in forgotten
    <3>1. CallInv(h) /\ h.sample \in Nat \ {0} /\ h.source \in Sources
      BY <1>1, SamplesAreNumbers DEF Consistent, TypeOK, Calls, Call
    <3>2. fields'[f].sample = h.sample /\ fields'[f].source = h.source
      BY <2>2 DEF Decided
    <3>3. fields[f].sample \in Nat
      BY <1>1, <2>2, FieldsHaveNumbers DEF Consistent
    <3>4. CASE fields[f].sample = 0
      BY <3>1, <3>2, <3>4
    <3>5. CASE fields[f].sample # 0
      <4>1. /\ fields[f].sample \in Ever
            /\ h.source = "mqtt" => 1 .. (fields[f].sample - 1) \subseteq Ever
            /\ h.source = "http" => fields[f].sample <= h.sample
        BY <1>1, <2>2, <3>1, <3>2, <3>5
           DEF Consistent, Remembering, Observed, CallInv, OverMqtt
      <4>2. h.sample > fields[f].sample \/ h.sample \in Ever
        <5>1. CASE h.source = "mqtt"
          BY <3>1, <3>3, <4>1, <5>1
        <5>2. CASE h.source = "http"
          BY <3>1, <3>3, <4>1, <5>2
        <5> QED
          BY <3>1, <5>1, <5>2 DEF Sources
      <4> QED
        BY <2>2, <3>2, <4>2 DEF Ever, Decides
    <3> QED
      BY <3>4, <3>5
  <2> QED
    BY <1>1, <2>1, <2>2, FieldsAreDecided
<1>2. Consistent /\ [Next]_vars => [Step]_vars
  BY <1>1
<1> QED
  BY <1>2, StoresAgree, PTL DEF Spec, OnlyForgottenSamplesComeBack
=============================================================================
