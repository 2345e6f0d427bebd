--------------------------- MODULE AggregateProofs --------------------------
(***************************************************************************)
(* Theorems about the aggregate pallet, for every configuration: any set   *)
(* of accounts, any sizes, any fees, any bounds of the id types.           *)
(***************************************************************************)
EXTENDS Aggregate, SumTheorems

(***************************************************************************)
(* What holds of one stored domain entry, whatever its id.                 *)
(***************************************************************************)
EntryTyped(dom) == \E ids \in SUBSET (0 .. U64Max) : dom \in DomainEntry(ids)

EntryBounded(dom) ==
  /\ Len(dom.next.statements) < dom.next.size
  /\ dom.next.size <= AggregationSize
  /\ Cardinality(DOMAIN dom.should_publish) <= dom.publish_queue_size
  /\ dom.publish_queue_size <= MaxPendingPublishQueueSize

EntryOrdered(dom) ==
  /\ \A i \in DOMAIN dom.should_publish :
       /\ dom.should_publish[i].id = i
       /\ completed(dom.should_publish[i])
       /\ i >= 1
       /\ dom.next.id # 0 => i < dom.next.id
  /\ dom.next.id = 0 => dom.state # "Ready" /\ dom.next.statements = <<>>

EntryOK(dom) == EntryTyped(dom) /\ EntryBounded(dom) /\ EntryOrdered(dom)

(* The fields of a typed entry, one fact each. *)
LEMMA EntryFields ==
  ASSUME NEW dom, EntryTyped(dom)
  PROVE  /\ dom.owner \in Users
         /\ dom.state \in DomainState
         /\ dom.next \in AggregationEntry
         /\ dom.next.id \in 0 .. U64Max
         /\ dom.next.size \in Nat
         /\ dom.next.statements \in Seq(StatementEntry)
         /\ Len(dom.next.statements) \in Nat
         /\ dom.publish_queue_size \in Nat
         /\ dom.should_publish \in [DOMAIN dom.should_publish -> AggregationEntry]
         /\ DOMAIN dom.should_publish \subseteq 0 .. U64Max
         /\ dom \in DomainEntry(DOMAIN dom.should_publish)
         /\ IsFiniteSet(DOMAIN dom.should_publish)
         /\ Cardinality(DOMAIN dom.should_publish) \in Nat
  <1>1. PICK ids \in SUBSET (0 .. U64Max) : dom \in DomainEntry(ids)
    BY DEF EntryTyped
  <1>2. dom.should_publish \in [ids -> AggregationEntry]
    BY <1>1 DEF DomainEntry
  <1>3. ids = DOMAIN dom.should_publish
    BY <1>2
  <1>4. dom.next \in AggregationEntry
    BY <1>1 DEF DomainEntry
  <1>5. /\ dom.next.id \in 0 .. U64Max
        /\ dom.next.size \in Nat
        /\ dom.next.statements \in Seq(StatementEntry)
        /\ Len(dom.next.statements) \in Nat
    BY <1>4 DEF AggregationEntry
  <1>6. /\ dom.owner \in Users
        /\ dom.state \in DomainState
        /\ dom.publish_queue_size \in Nat
    BY <1>1 DEF DomainEntry
  <1>7. IsFiniteSet(0 .. U64Max)
    BY FS_Interval, ConfigAssumption
  <1>8. IsFiniteSet(ids) /\ Cardinality(ids) \in Nat
    BY <1>1, <1>7, FS_Subset, FS_CardinalityType
  <1>9. QED
    BY <1>1, <1>2, <1>3, <1>4, <1>5, <1>6, <1>8

(* Changing the state only. *)
LEMMA StateChangeOK ==
  ASSUME NEW dom, EntryOK(dom), NEW st \in {"Hold", "Removable"}
  PROVE  EntryOK([dom EXCEPT !.state = st])
  <1> DEFINE new == [dom EXCEPT !.state = st]
  <1>1. dom \in DomainEntry(DOMAIN dom.should_publish)
    BY EntryFields DEF EntryOK
  <1>2. new \in DomainEntry(DOMAIN dom.should_publish)
    BY <1>1 DEF DomainEntry, DomainState
  <1>3. /\ new.next = dom.next
        /\ new.should_publish = dom.should_publish
        /\ new.publish_queue_size = dom.publish_queue_size
        /\ new.state = st
    BY <1>1 DEF DomainEntry
  <1>4. DOMAIN dom.should_publish \in SUBSET (0 .. U64Max)
    BY EntryFields DEF EntryOK
  <1>5. EntryTyped(new)
    BY <1>2, <1>4 DEF EntryTyped
  <1>6. EntryBounded(new)
    BY <1>3 DEF EntryOK, EntryBounded
  <1>7. EntryOrdered(new)
    BY <1>3 DEF EntryOK, EntryOrdered
  <1>8. QED
    BY <1>5, <1>6, <1>7 DEF EntryOK

LEMMA HoldStateOK ==
  ASSUME NEW d, NEW dom, NEW allowed, EntryOK(dom)
  PROVE  /\ EntryOK(update_hold_state(d, dom, allowed))
         /\ EntryOK(handle_hold_state(d, dom, allowed))
  BY StateChangeOK DEF update_hold_state, handle_hold_state

(***************************************************************************)
(* Replacing the aggregation being filled by the next one.  The entry may  *)
(* hold a full aggregation in dom.next: append_statement pops it before    *)
(* the bound is restored, so boundedness of dom.next is not assumed.       *)
(***************************************************************************)
LEMMA PopFields ==
  ASSUME NEW dom, EntryTyped(dom), dom.next.size # 0
  PROVE  LET new == pop_next_aggregation(dom)
         IN  /\ EntryTyped(new)
             /\ new.next.size = dom.next.size
             /\ new.next.statements = <<>>
             /\ new.next.id = 0 => new.state # "Ready"
             /\ new.next.id # 0 => new.next.id = dom.next.id + 1
             /\ new.should_publish = dom.should_publish
             /\ new.publish_queue_size = dom.publish_queue_size
  <1> DEFINE new == pop_next_aggregation(dom)
  <1> USE EntryFields
  <1>1. dom \in DomainEntry(DOMAIN dom.should_publish)
    OBVIOUS
  <1>2. DOMAIN dom.should_publish \in SUBSET (0 .. U64Max)
    OBVIOUS
  <1>3. dom.next.id \in 0 .. U64Max /\ dom.next.size \in Nat
    OBVIOUS
  <1>4. U64Max \in Nat
    BY ConfigAssumption
  <1>5. \A id \in 0 .. U64Max : AggregationCreate(id, dom.next.size) \in AggregationEntry
    BY <1>3 DEF AggregationCreate, AggregationEntry
  <1>6. CASE dom.next.id < U64Max
    <2> DEFINE nxt == AggregationCreate(dom.next.id + 1, dom.next.size)
    <2>1. new = [dom EXCEPT !.next = nxt]
      BY <1>6 DEF pop_next_aggregation
    <2>2. nxt \in AggregationEntry
      BY <1>3, <1>4, <1>5, <1>6
    <2>3. /\ nxt.id = dom.next.id + 1
          /\ nxt.size = dom.next.size
          /\ nxt.statements = <<>>
      BY DEF AggregationCreate
    <2> HIDE DEF nxt
    <2>4. new \in DomainEntry(DOMAIN dom.should_publish)
      BY <1>1, <2>1, <2>2 DEF DomainEntry
    <2>5. /\ new.next = nxt
          /\ new.should_publish = dom.should_publish
          /\ new.publish_queue_size = dom.publish_queue_size
      BY <1>1, <2>1 DEF DomainEntry
    <2>6. EntryTyped(new)
      BY <1>2, <2>4 DEF EntryTyped
    <2>7. nxt.id # 0
      BY <1>3, <2>3
    <2>8. QED
      BY <2>3, <2>5, <2>6, <2>7
  <1>7. CASE ~(dom.next.id < U64Max)
    <2> DEFINE nxt == AggregationCreate(0, dom.next.size)
    <2>1. new = [dom EXCEPT !.state = "Hold", !.next = nxt]
      BY <1>7 DEF pop_next_aggregation
    <2>2. nxt \in AggregationEntry
      BY <1>4, <1>5
    <2>3. /\ nxt.id = 0
          /\ nxt.size = dom.next.size
          /\ nxt.statements = <<>>
      BY DEF AggregationCreate
    <2> HIDE DEF nxt
    <2>4. new \in DomainEntry(DOMAIN dom.should_publish)
      BY <1>1, <2>1, <2>2 DEF DomainEntry, DomainState
    <2>5. /\ new.next = nxt
          /\ new.state = "Hold"
          /\ new.should_publish = dom.should_publish
          /\ new.publish_queue_size = dom.publish_queue_size
      BY <1>1, <2>1 DEF DomainEntry
    <2>6. EntryTyped(new)
      BY <1>2, <2>4 DEF EntryTyped
    <2>7. QED
      BY <2>3, <2>5, <2>6
  <1>8. QED
    BY <1>6, <1>7

(***************************************************************************)
(* take_aggregation: what is taken is an aggregation of the domain, what   *)
(* remains is a good entry.                                                *)
(***************************************************************************)
LEMMA TakeOK ==
  ASSUME NEW dom, EntryOK(dom), NEW id, can_take_aggregation(dom, id)
  PROVE  /\ EntryOK(take_aggregation(dom, id))
         /\ taken_aggregation(dom, id) \in AggregationEntry
  <1> DEFINE new == take_aggregation(dom, id)
  <1>0. EntryTyped(dom) /\ EntryBounded(dom) /\ EntryOrdered(dom)
    BY DEF EntryOK
  <1> USE EntryFields
  <1>1. CASE dom.next.id = id
    <2>1. new = pop_next_aggregation(dom)
      BY <1>1 DEF take_aggregation
    <2>2. dom.next.size # 0 /\ dom.next.size \in Nat
      BY <1>0 DEF EntryBounded
    <2>3. /\ EntryTyped(new)
          /\ new.next.size = dom.next.size
          /\ new.next.statements = <<>>
          /\ new.next.id = 0 => new.state # "Ready"
          /\ new.next.id # 0 => new.next.id = dom.next.id + 1
          /\ new.should_publish = dom.should_publish
          /\ new.publish_queue_size = dom.publish_queue_size
      BY <1>0, <2>1, <2>2, PopFields
    <2>4. EntryBounded(new)
      BY <1>0, <2>2, <2>3 DEF EntryBounded
    <2>5. dom.next.id # 0
      BY <1>0, <1>1 DEF can_take_aggregation, EntryOrdered
    <2>6. ASSUME NEW i \in DOMAIN new.should_publish, new.next.id # 0
          PROVE  i < new.next.id
      <3>1. i \in 0 .. U64Max /\ i < dom.next.id /\ dom.next.id \in 0 .. U64Max
        BY <1>0, <2>3, <2>5 DEF EntryOrdered
      <3>2. QED
        BY <2>3, <2>6, <3>1
    <2>7. EntryOrdered(new)
      BY <1>0, <2>3, <2>6 DEF EntryOrdered
    <2>8. QED
      BY <1>0, <1>1, <2>3, <2>4, <2>7 DEF EntryOK, taken_aggregation
  <1>2. CASE dom.next.id # id
    <2> DEFINE ids == DOMAIN dom.should_publish
               rest == [i \in ids \ {id} |-> dom.should_publish[i]]
    <2>1. new = [dom EXCEPT !.should_publish = rest]
      BY <1>2 DEF take_aggregation
    <2>2. id \in ids
      BY <1>2 DEF can_take_aggregation
    <2>3. rest \in [ids \ {id} -> AggregationEntry]
      BY <1>0
    <2> HIDE DEF rest
    <2>4. new \in DomainEntry(ids \ {id})
      <3>1. dom \in DomainEntry(ids)
        BY <1>0
      <3> HIDE DEF ids, new
      <3>2. QED
        BY <2>1, <2>3, <3>1 DEF DomainEntry
    <2>5. /\ new.next = dom.next
          /\ new.state = dom.state
          /\ new.should_publish = rest
          /\ new.publish_queue_size = dom.publish_queue_size
      BY <1>0, <2>1 DEF DomainEntry
    <2>6. EntryTyped(new)
      BY <1>0, <2>4 DEF EntryTyped
    <2>7. DOMAIN rest = ids \ {id}
      BY <2>3
    <2>8. Cardinality(ids \ {id}) = Cardinality(ids) - 1
      BY <1>0, <2>2, FS_RemoveElement
    <2>9. EntryBounded(new)
      BY <1>0, <2>5, <2>7, <2>8 DEF EntryBounded
    <2>10. \A i \in DOMAIN rest : i \in ids /\ rest[i] = dom.should_publish[i]
      BY <2>7 DEF rest
    <2>11. EntryOrdered(new)
      BY <1>0, <2>5, <2>10 DEF EntryOrdered
    <2>12. taken_aggregation(dom, id) \in AggregationEntry
      BY <1>0, <1>2, <2>2 DEF taken_aggregation
    <2>13. QED
      BY <2>6, <2>9, <2>11, <2>12 DEF EntryOK
  <1>3. QED
    BY <1>1, <1>2

(***************************************************************************)
(* append_statement under the conditions of on_proof_verified.  The heart  *)
(* of the bound: can_add_statement leaves either a free slot in the queue  *)
(* or room for two in dom.next, so an aggregation that becomes full always *)
(* finds a place.                                                          *)
(***************************************************************************)
LEMMA AppendOK ==
  ASSUME NEW dom, EntryOK(dom), dom.state = "Ready", can_add_statement(dom),
         NEW e \in StatementEntry
  PROVE  EntryOK(append_statement(dom, e))
  <1> DEFINE ids == DOMAIN dom.should_publish
             filled == [dom.next EXCEPT !.statements = Append(@, e)]
             added == [dom EXCEPT !.next.statements = Append(@, e)]
             size == dom.next.size
             len == Len(dom.next.statements)
  <1>1. EntryTyped(dom) /\ EntryBounded(dom) /\ EntryOrdered(dom)
    BY DEF EntryOK
  <1>2. /\ dom \in DomainEntry(ids)
        /\ ids \in SUBSET (0 .. U64Max)
        /\ dom.next \in AggregationEntry
        /\ dom.next.id \in 0 .. U64Max
        /\ size \in Nat /\ len \in Nat /\ len < size
        /\ dom.next.statements \in Seq(StatementEntry)
        /\ dom.publish_queue_size \in Nat
        /\ Cardinality(ids) \in Nat /\ IsFiniteSet(ids)
        /\ dom.should_publish \in [ids -> AggregationEntry]
    BY <1>1, EntryFields DEF EntryBounded
  <1>3. dom.next.id # 0
    BY <1>1 DEF EntryOrdered
  <1>4. /\ filled \in AggregationEntry
        /\ filled.id = dom.next.id
        /\ filled.size = size
        /\ filled.statements = Append(dom.next.statements, e)
        /\ Len(filled.statements) = len + 1
    <2> DEFINE longer == Append(dom.next.statements, e)
    <2>1. longer \in Seq(StatementEntry) /\ Len(longer) = len + 1
      BY <1>2
    <2>2. filled = [dom.next EXCEPT !.statements = longer]
      BY <1>2 DEF AggregationEntry
    <2> HIDE DEF longer, filled
    <2>3. /\ filled \in AggregationEntry
          /\ filled.id = dom.next.id
          /\ filled.size = size
          /\ filled.statements = longer
      BY <1>2, <2>1, <2>2 DEF AggregationEntry
    <2>4. QED
      BY <2>1, <2>3 DEF longer
  <1>5. /\ added \in DomainEntry(ids)
        /\ added.next = filled
        /\ added.state = dom.state
        /\ added.should_publish = dom.should_publish
        /\ added.publish_queue_size = dom.publish_queue_size
    <2>1. added = [dom EXCEPT !.next = filled]
      BY <1>2 DEF DomainEntry
    <2> HIDE DEF added, filled
    <2>2. QED
      BY <1>2, <1>4, <2>1 DEF DomainEntry
  <1> HIDE DEF filled
  <1>6. EntryTyped(added)
    BY <1>2, <1>5 DEF EntryTyped
  <1>7. CASE ~ is_next_aggregation_complete(added)
    <2>1. append_statement(dom, e) = added
      BY <1>7 DEF append_statement
    <2>2. Len(added.next.statements) < added.next.size
      <3> HIDE DEF added
      <3>1. QED BY <1>2, <1>4, <1>5, <1>7 DEF is_next_aggregation_complete
    <2> HIDE DEF added
    <2>3. EntryBounded(added)
      BY <1>1, <1>4, <1>5, <2>2 DEF EntryBounded
    <2>4. EntryOrdered(added)
      BY <1>1, <1>3, <1>4, <1>5 DEF EntryOrdered
    <2>5. QED
      BY <1>6, <2>1, <2>3, <2>4 DEF EntryOK
  <1>8. CASE is_next_aggregation_complete(added)
    <2> DEFINE popped == pop_next_aggregation(added)
               queue == [i \in ids \cup {filled.id} |->
                           IF i = filled.id THEN filled ELSE dom.should_publish[i]]
               new == append_statement(dom, e)
    <2>1. len + 1 = size
      <3> HIDE DEF added
      <3>1. QED BY <1>2, <1>4, <1>5, <1>8 DEF is_next_aggregation_complete
    <2>2. /\ EntryTyped(popped)
          /\ popped.next.size = size
          /\ popped.next.statements = <<>>
          /\ popped.next.id = 0 => popped.state # "Ready"
          /\ popped.next.id # 0 => popped.next.id = dom.next.id + 1
          /\ popped.should_publish = dom.should_publish
          /\ popped.publish_queue_size = dom.publish_queue_size
      <3>1. size # 0
        BY <1>2
      <3> HIDE DEF added
      <3>2. QED
        BY <1>4, <1>5, <1>6, <3>1, PopFields
    <2>3. new = [popped EXCEPT !.should_publish = queue]
      <3>1. new = available_aggregation(popped, filled)
        BY <1>5, <1>8 DEF append_statement
      <3> HIDE DEF popped, new
      <3>2. QED
        BY <2>2, <3>1 DEF available_aggregation
    <2>4. queue \in [ids \cup {filled.id} -> AggregationEntry]
      BY <1>2, <1>4
    <2>5. popped \in DomainEntry(ids)
      BY <2>2, EntryFields
    <2> HIDE DEF popped, queue, new
    <2>6. /\ new \in DomainEntry(ids \cup {filled.id})
          /\ new.next = popped.next
          /\ new.state = popped.state
          /\ new.should_publish = queue
          /\ new.publish_queue_size = popped.publish_queue_size
      BY <2>3, <2>4, <2>5 DEF DomainEntry
    <2>7. EntryTyped(new)
      <3>1. ids \cup {filled.id} \in SUBSET (0 .. U64Max)
        BY <1>2, <1>4
      <3>2. QED
        BY <2>6, <3>1 DEF EntryTyped
    <2>8. filled.id \notin ids
      <3>1. ASSUME filled.id \in ids
            PROVE  FALSE
        <4>1. dom.next.id < dom.next.id
          BY <1>1, <1>3, <1>4, <3>1 DEF EntryOrdered
        <4>2. QED
          BY <1>2, <4>1
      <3>2. QED
        BY <3>1
    <2>9. DOMAIN queue = ids \cup {filled.id}
      BY <2>4
    <2>10. Cardinality(DOMAIN queue) = Cardinality(ids) + 1
      BY <1>2, <2>8, <2>9, FS_AddElement
    <2>11. Cardinality(ids) < dom.publish_queue_size
      <3>1. ~(space_left(dom.next) > 1)
        BY <1>2, <2>1 DEF space_left, Excess
      <3>2. Excess(dom.publish_queue_size, Cardinality(ids)) > 0
        BY <3>1 DEF can_add_statement
      <3>3. QED
        BY <1>2, <3>2 DEF Excess
    <2>12. EntryBounded(new)
      <3>1. Len(new.next.statements) = 0 /\ new.next.size = size
        BY <2>2, <2>6
      <3>2. Cardinality(DOMAIN new.should_publish) <= new.publish_queue_size
        BY <1>2, <2>2, <2>6, <2>10, <2>11
      <3>3. QED
        BY <1>1, <1>2, <2>2, <2>6, <3>1, <3>2 DEF EntryBounded
    <2>13. EntryOrdered(new)
      <3>1. ASSUME NEW i \in ids \cup {filled.id}
            PROVE  /\ queue[i].id = i
                   /\ completed(queue[i])
                   /\ i >= 1
                   /\ new.next.id # 0 => i < new.next.id
        <4>1. CASE i = filled.id
          <5>1. queue[i] = filled
            BY <4>1 DEF queue
          <5>2. completed(filled)
            BY <1>2, <1>4, <2>1 DEF completed, space_left, Excess
          <5>3. i >= 1 /\ (new.next.id # 0 => i < new.next.id)
            BY <1>2, <1>3, <1>4, <2>2, <2>6, <4>1
          <5>4. QED
            BY <4>1, <5>1, <5>2, <5>3
        <4>2. CASE i # filled.id
          <5>1. i \in ids /\ queue[i] = dom.should_publish[i]
            BY <4>2 DEF queue
          <5>2. i < dom.next.id /\ i \in 0 .. U64Max
            BY <1>1, <1>2, <1>3, <5>1 DEF EntryOrdered
          <5>3. new.next.id # 0 => i < new.next.id
            BY <1>2, <2>2, <2>6, <5>2
          <5>4. QED
            BY <1>1, <5>1, <5>3 DEF EntryOrdered
        <4>3. QED
          BY <4>1, <4>2
      <3>2. new.next.id = 0 => new.state # "Ready" /\ new.next.statements = <<>>
        BY <2>2, <2>6
      <3>3. QED
        BY <2>6, <2>9, <3>1, <3>2 DEF EntryOrdered
    <2>14. QED
      BY <2>7, <2>12, <2>13 DEF EntryOK, new
  <1>9. QED
    BY <1>7, <1>8

(***************************************************************************)
(* What a registered domain never changes.                                 *)
(***************************************************************************)
SameTerms(dom, new) ==
  /\ new.owner = dom.owner
  /\ new.publish_queue_size = dom.publish_queue_size
  /\ new.aggregate_rules = dom.aggregate_rules
  /\ new.proof_rules = dom.proof_rules
  /\ new.max_aggregation_size = dom.max_aggregation_size
  /\ new.next.size = dom.next.size

LEMMA HoldTerms ==
  ASSUME NEW d, NEW dom, NEW allowed, EntryTyped(dom)
  PROVE  /\ SameTerms(dom, update_hold_state(d, dom, allowed))
         /\ SameTerms(dom, handle_hold_state(d, dom, allowed))
  <1>1. dom \in DomainEntry(DOMAIN dom.should_publish)
    BY EntryFields
  <1>2. \A st : SameTerms(dom, [dom EXCEPT !.state = st])
    BY <1>1 DEF DomainEntry, SameTerms
  <1>3. QED
    BY <1>2 DEF update_hold_state, handle_hold_state, SameTerms

LEMMA PopTerms ==
  ASSUME NEW dom, EntryTyped(dom)
  PROVE  /\ SameTerms(dom, pop_next_aggregation(dom))
         /\ dom.state # "Ready" => pop_next_aggregation(dom).state # "Ready"
  <1>1. dom \in DomainEntry(DOMAIN dom.should_publish)
    BY EntryFields
  <1>2. \A id : AggregationCreate(id, dom.next.size).size = dom.next.size
    BY DEF AggregationCreate
  <1>3. \A nxt : nxt.size = dom.next.size =>
           /\ SameTerms(dom, [dom EXCEPT !.next = nxt])
           /\ [dom EXCEPT !.next = nxt].state = dom.state
    BY <1>1 DEF DomainEntry, SameTerms
  <1>4. \A nxt : nxt.size = dom.next.size =>
           /\ SameTerms(dom, [dom EXCEPT !.state = "Hold", !.next = nxt])
           /\ [dom EXCEPT !.state = "Hold", !.next = nxt].state = "Hold"
    BY <1>1 DEF DomainEntry, SameTerms
  <1>5. QED
    BY <1>2, <1>3, <1>4 DEF pop_next_aggregation

LEMMA QueueTerms ==
  ASSUME NEW dom, EntryTyped(dom), NEW queue
  PROVE  /\ SameTerms(dom, [dom EXCEPT !.should_publish = queue])
         /\ [dom EXCEPT !.should_publish = queue].state = dom.state
  <1>1. dom \in DomainEntry(DOMAIN dom.should_publish)
    BY EntryFields
  <1>2. QED
    BY <1>1 DEF DomainEntry, SameTerms

LEMMA TakeTerms ==
  ASSUME NEW dom, EntryTyped(dom), NEW id
  PROVE  /\ SameTerms(dom, take_aggregation(dom, id))
         /\ dom.state # "Ready" => take_aggregation(dom, id).state # "Ready"
  BY PopTerms, QueueTerms DEF take_aggregation

LEMMA AppendTerms ==
  ASSUME NEW dom, EntryTyped(dom), dom.next.size # 0, NEW e \in StatementEntry
  PROVE  SameTerms(dom, append_statement(dom, e))
  <1> DEFINE filled == [dom.next EXCEPT !.statements = Append(@, e)]
             added == [dom EXCEPT !.next.statements = Append(@, e)]
  <1>1. /\ dom \in DomainEntry(DOMAIN dom.should_publish)
        /\ dom.next \in AggregationEntry
        /\ DOMAIN dom.should_publish \in SUBSET (0 .. U64Max)
    BY EntryFields
  <1>2. dom.next.statements \in Seq(StatementEntry)
    BY EntryFields
  <1>3. filled \in AggregationEntry /\ filled.size = dom.next.size
    <2> DEFINE longer == Append(dom.next.statements, e)
    <2>1. longer \in Seq(StatementEntry)
      BY <1>2
    <2>2. filled = [dom.next EXCEPT !.statements = longer]
      BY <1>1 DEF AggregationEntry
    <2> HIDE DEF longer, filled
    <2>3. QED
      BY <1>1, <2>1, <2>2 DEF AggregationEntry
  <1>4. added = [dom EXCEPT !.next = filled]
    BY <1>1 DEF DomainEntry
  <1> HIDE DEF filled, added
  <1>5. /\ added \in DomainEntry(DOMAIN dom.should_publish)
        /\ SameTerms(dom, added)
    BY <1>1, <1>3, <1>4 DEF DomainEntry, SameTerms
  <1>6. EntryTyped(added)
    BY <1>1, <1>5 DEF EntryTyped
  <1>7. /\ SameTerms(added, pop_next_aggregation(added))
        /\ EntryTyped(pop_next_aggregation(added))
    BY <1>5, <1>6, PopTerms, PopFields DEF SameTerms
  <1>8. \A agg : SameTerms(dom, available_aggregation(pop_next_aggregation(added), agg))
    BY <1>5, <1>7, QueueTerms DEF available_aggregation, SameTerms
  <1>9. QED
    BY <1>5, <1>8 DEF append_statement, added
-----------------------------------------------------------------------------
(***************************************************************************)
(* The inductive invariant.  HoldStateExact needs to know whose allowlist  *)
(* entries are whose; the others need the entry-wise facts above.          *)
(***************************************************************************)
PublishedEntry == [domain : DomainId, aggregation : AggregationEntry]

EntriesOK ==
  \A d \in DOMAIN domains :
    /\ EntryOK(domains[d])
    /\ domains[d].next.size = domains[d].max_aggregation_size

IdsHandedOut == \A d \in DOMAIN domains : d < next_domain_id

AllowlistOwned ==
  \A d \in DomainId, a \in Accounts :
    <<d, a>> \in allowlist =>
      d \in DOMAIN domains /\ domains[d].proof_rules = "OnlyAllowlisted"

IInv ==
  /\ TypeOK
  /\ EntriesOK
  /\ IdsHandedOut
  /\ AllowlistOwned
  /\ HoldStateExact

(* The hold state of an entry, given the allowlist. *)
ExactState(d, dom, allowed) ==
  dom.state # "Ready" =>
    (dom.state = "Removable" <=>
       /\ DOMAIN dom.should_publish = {}
       /\ dom.next.statements = <<>>
       /\ ~ \E a \in Accounts : <<d, a>> \in allowed)

(* update_hold_state and handle_hold_state establish it. *)
LEMMA HoldStateComputed ==
  ASSUME NEW d, NEW dom, NEW allowed, EntryTyped(dom),
         (\E a \in Accounts : <<d, a>> \in allowed) => dom.proof_rules = "OnlyAllowlisted"
  PROVE  /\ ExactState(d, update_hold_state(d, dom, allowed), allowed)
         /\ ExactState(d, handle_hold_state(d, dom, allowed), allowed)
         /\ update_hold_state(d, dom, allowed).state # "Ready"
         /\ dom.state # "Ready" => handle_hold_state(d, dom, allowed).state # "Ready"
  <1>1. dom \in DomainEntry(DOMAIN dom.should_publish)
    BY EntryFields
  <1>2. \A st : /\ [dom EXCEPT !.state = st].state = st
                /\ [dom EXCEPT !.state = st].should_publish = dom.should_publish
                /\ [dom EXCEPT !.state = st].next = dom.next
    BY <1>1 DEF DomainEntry
  <1>3. is_allowlist_empty(d, dom, allowed) <=> ~ \E a \in Accounts : <<d, a>> \in allowed
    BY DEF is_allowlist_empty
  <1>4. /\ ExactState(d, update_hold_state(d, dom, allowed), allowed)
        /\ update_hold_state(d, dom, allowed).state # "Ready"
    BY <1>2, <1>3 DEF update_hold_state, ExactState
  <1>5. QED
    BY <1>4 DEF handle_hold_state, ExactState

(***************************************************************************)
(* A call that replaces the entry of one domain, and possibly changes that *)
(* domain's part of the allowlist.                                         *)
(***************************************************************************)
LEMMA UpdateOne ==
  ASSUME IInv, NEW d \in DOMAIN domains, NEW new,
         set_domain(d, new),
         EntryOK(new),
         SameTerms(domains[d], new),
         ExactState(d, new, allowlist'),
         domains[d].state # "Ready" => new.state # "Ready",
         domains[d].state = "Removable" => new.state = "Removable",
         next_domain_id' = next_domain_id,
         published' \in Seq(PublishedEntry),
         allowlist' \subseteq DomainId \X Accounts,
         \A i \in DomainId, a \in Accounts :
           i # d => (<<i, a>> \in allowlist' => <<i, a>> \in allowlist),
         \A i \in DomainId, a \in Accounts :
           i # d => (<<i, a>> \in allowlist => <<i, a>> \in allowlist'),
         (\E a \in Accounts : <<d, a>> \in allowlist') => new.proof_rules = "OnlyAllowlisted"
  PROVE  IInv' /\ DomainAdvances
  <1>1. TypeOK /\ EntriesOK /\ IdsHandedOut /\ AllowlistOwned /\ HoldStateExact
    BY DEF IInv
  <1>2. /\ domains' = [i \in DOMAIN domains |-> IF i = d THEN new ELSE domains[i]]
        /\ DOMAIN domains' = DOMAIN domains
        /\ domains'[d] = new
        /\ \A i \in DOMAIN domains : i # d => domains'[i] = domains[i]
    <2>1. DOMAIN domains \cup {d} = DOMAIN domains
      OBVIOUS
    <2>2. QED
      BY <2>1 DEF set_domain
  <1>3. DOMAIN domains \subseteq DomainId
    BY <1>1 DEF TypeOK
  <1>4. TypeOK'
    <2>1. \A i \in DOMAIN domains' :
            \E ids \in SUBSET (0 .. U64Max) : domains'[i] \in DomainEntry(ids)
      BY <1>1, <1>2 DEF TypeOK, EntryOK, EntryTyped
    <2>2. domains' = [i \in DOMAIN domains' |-> domains'[i]]
      BY <1>2
    <2>3. next_domain_id \in DomainId
      BY <1>1 DEF TypeOK
    <2>4. QED
      BY <1>2, <1>3, <2>1, <2>2, <2>3 DEF TypeOK, PublishedEntry
  <1>5. EntriesOK'
    BY <1>1, <1>2 DEF EntriesOK, SameTerms
  <1>6. IdsHandedOut'
    BY <1>1, <1>2 DEF IdsHandedOut
  <1>7. AllowlistOwned'
    BY <1>1, <1>2 DEF AllowlistOwned, SameTerms
  <1>8. HoldStateExact'
    <2> SUFFICES ASSUME NEW i \in DOMAIN domains, domains'[i].state # "Ready"
                 PROVE  (domains[i].state = "Removable")' <=> Drained(i)'
      BY <1>2 DEF HoldStateExact
    <2>1. CASE i = d
      BY <1>2, <2>1 DEF ExactState, Drained
    <2>2. CASE i # d
      <3>1. domains'[i] = domains[i] /\ i \in DomainId
        BY <1>2, <1>3, <2>2
      <3>2. \A a \in Accounts : <<i, a>> \in allowlist' <=> <<i, a>> \in allowlist
        BY <2>2, <3>1
      <3>3. domains[i].state = "Removable" <=> Drained(i)
        BY <1>1, <3>1 DEF HoldStateExact
      <3>4. Drained(i)' <=> Drained(i)
        BY <3>1, <3>2 DEF Drained
      <3>5. QED
        BY <3>1, <3>3, <3>4
    <2>3. QED
      BY <2>1, <2>2
  <1>9. DomainAdvances
    <2>1. \A i \in DOMAIN domains : domains[i].next.size = domains[i].max_aggregation_size
      BY <1>1 DEF EntriesOK
    <2>2. QED
      BY <1>2, <2>1 DEF DomainAdvances, SameTerms
  <1>10. QED
    BY <1>4, <1>5, <1>6, <1>7, <1>8, <1>9 DEF IInv
-----------------------------------------------------------------------------
(***************************************************************************)
(* One lemma for each action: it preserves the invariant and only moves    *)
(* the domain forward.                                                     *)
(***************************************************************************)
(* What the share of a submitter is made of. *)
LEMMA ReserveTyped ==
  ASSUME NEW dom, EntryTyped(dom), dom.next.size # 0, NEW e \in CallFees
  PROVE  Reserve(dom, e) \in [aggregate : Nat, delivery : Nat]
  <1>1. dom.next.size \in Nat
    BY EntryFields
  <1>2. dom.delivery.fee \in Nat /\ dom.delivery.owner_tip \in Nat
    <2>1. dom \in DomainEntry(DOMAIN dom.should_publish)
      BY EntryFields
    <2>2. QED
      BY <2>1 DEF DomainEntry
  <1>3. e \in Nat /\ BaseTip \in Nat /\ TipPercent \in Nat
    BY InputAssumption
  <1>4. compute_tip(e) \in Nat
    <2>1. TipPercent * e \in Nat
      BY <1>3
    <2>2. (TipPercent * e) \div 100 \in Nat
      BY <2>1
    <2>3. QED
      BY <1>3, <2>2 DEF compute_tip
  <1>5. (e + compute_tip(e)) \div dom.next.size \in Nat
    <2>1. \A m \in Nat, n \in Nat \ {0} : m \div n \in Nat
      OBVIOUS
    <2>2. QED
      BY <1>1, <1>3, <1>4, <2>1
  <1>6. total_fee(dom.delivery) \in Nat
    BY <1>2, ConfigAssumption DEF total_fee
  <1>7. total_fee(dom.delivery) \div dom.next.size \in Nat
    BY <1>1, <1>6
  <1>8. QED
    BY <1>5, <1>7 DEF Reserve

(* An entry that is stored keeps its part of the invariant. *)
LEMMA StoredEntry ==
  ASSUME IInv, NEW d \in DOMAIN domains
  PROVE  /\ d \in DomainId
         /\ EntryOK(domains[d])
         /\ EntryTyped(domains[d])
         /\ domains[d].next.size \in Nat \ {0}
         /\ ExactState(d, domains[d], allowlist)
         /\ (\E a \in Accounts : <<d, a>> \in allowlist)
              => domains[d].proof_rules = "OnlyAllowlisted"
  <1>1. d \in DomainId
    BY DEF IInv, TypeOK
  <1>2. EntryOK(domains[d])
    BY DEF IInv, EntriesOK
  <1>3. EntryTyped(domains[d]) /\ EntryBounded(domains[d])
    BY <1>2 DEF EntryOK
  <1>4. domains[d].next.size \in Nat \ {0}
    BY <1>3, EntryFields DEF EntryBounded
  <1>5. ExactState(d, domains[d], allowlist)
    BY DEF IInv, HoldStateExact, ExactState, Drained
  <1>6. (\E a \in Accounts : <<d, a>> \in allowlist)
          => domains[d].proof_rules = "OnlyAllowlisted"
    BY <1>1 DEF IInv, AllowlistOwned
  <1>7. QED
    BY <1>1, <1>2, <1>3, <1>4, <1>5, <1>6

(* The case that leaves the allowlist and the published list alone. *)
LEMMA UpdateEntry ==
  ASSUME IInv, NEW d \in DOMAIN domains, NEW new,
         set_domain(d, new),
         EntryOK(new),
         SameTerms(domains[d], new),
         ExactState(d, new, allowlist),
         domains[d].state # "Ready" => new.state # "Ready",
         domains[d].state = "Removable" => new.state = "Removable",
         UNCHANGED <<next_domain_id, allowlist>>,
         published' \in Seq(PublishedEntry)
  PROVE  IInv' /\ DomainAdvances
  <1>1. allowlist \subseteq DomainId \X Accounts
    BY DEF IInv, TypeOK
  <1>2. (\E a \in Accounts : <<d, a>> \in allowlist) => new.proof_rules = "OnlyAllowlisted"
    BY StoredEntry DEF SameTerms
  <1>3. allowlist' = allowlist /\ next_domain_id' = next_domain_id
    OBVIOUS
  <1>4. ExactState(d, new, allowlist')
    BY <1>3
  <1>5. QED
    BY <1>1, <1>2, <1>3, <1>4, UpdateOne

LEMMA SubmitStep ==
  ASSUME IInv, NEW a \in Accounts, NEW d \in DOMAIN domains, NEW s \in Statements,
         NEW e \in CallFees, on_proof_verified(a, d, s, e)
  PROVE  IInv' /\ DomainAdvances
  <1> DEFINE dom == domains[d]
             entry == [account |-> a, reserve |-> Reserve(dom, e), statement |-> s]
             added == append_statement(dom, entry)
             new == handle_hold_state(d, added, allowlist)
  <1>1. /\ EntryOK(dom) /\ EntryTyped(dom) /\ dom.next.size # 0
        /\ (\E b \in Accounts : <<d, b>> \in allowlist) => dom.proof_rules = "OnlyAllowlisted"
    BY StoredEntry
  <1>2. /\ dom.state = "Ready"
        /\ can_add_statement(dom)
        /\ set_domain(d, new)
        /\ UNCHANGED <<next_domain_id, allowlist, published>>
    BY DEF on_proof_verified
  <1>3. entry \in StatementEntry
    BY <1>1, ReserveTyped DEF StatementEntry
  <1> HIDE DEF entry
  <1>4. EntryOK(added)
    BY <1>1, <1>2, <1>3, AppendOK
  <1>5. SameTerms(dom, added)
    BY <1>1, <1>3, AppendTerms
  <1>6. EntryTyped(added) /\ (\E b \in Accounts : <<d, b>> \in allowlist)
                               => added.proof_rules = "OnlyAllowlisted"
    BY <1>1, <1>4, <1>5 DEF EntryOK, SameTerms
  <1> HIDE DEF added
  <1>7. EntryOK(new) /\ SameTerms(added, new) /\ ExactState(d, new, allowlist)
    BY <1>1, <1>4, <1>5, <1>6, HoldStateOK, HoldTerms, HoldStateComputed DEF EntryOK, SameTerms
  <1> HIDE DEF new
  <1>8. SameTerms(dom, new)
    BY <1>5, <1>7 DEF SameTerms
  <1>9. published' \in Seq(PublishedEntry)
    BY <1>2 DEF IInv, TypeOK, PublishedEntry
  <1>10. QED
    BY <1>2, <1>7, <1>8, <1>9, UpdateEntry

LEMMA AggregateStep ==
  ASSUME IInv, NEW u \in Users, NEW d \in DOMAIN domains, NEW id,
         aggregate(u, d, id)
  PROVE  IInv' /\ DomainAdvances
  <1> DEFINE dom == domains[d]
             taken == take_aggregation(dom, id)
             new == handle_hold_state(d, taken, allowlist)
             agg == taken_aggregation(dom, id)
  <1>1. /\ EntryOK(dom) /\ EntryTyped(dom) /\ d \in DomainId
        /\ ExactState(d, dom, allowlist)
        /\ (\E b \in Accounts : <<d, b>> \in allowlist) => dom.proof_rules = "OnlyAllowlisted"
    BY StoredEntry
  <1>2. /\ can_take_aggregation(dom, id)
        /\ set_domain(d, new)
        /\ published' = Append(published, [domain |-> d, aggregation |-> agg])
        /\ UNCHANGED <<next_domain_id, allowlist>>
    BY DEF aggregate
  <1>3. EntryOK(taken) /\ agg \in AggregationEntry
    BY <1>1, <1>2, TakeOK
  <1>4. SameTerms(dom, taken) /\ (dom.state # "Ready" => taken.state # "Ready")
    BY <1>1, TakeTerms
  <1>5. dom.state # "Removable"
    BY <1>1, <1>2 DEF ExactState, can_take_aggregation
  <1>6. EntryTyped(taken) /\ ((\E b \in Accounts : <<d, b>> \in allowlist)
                                => taken.proof_rules = "OnlyAllowlisted")
    BY <1>1, <1>3, <1>4 DEF EntryOK, SameTerms
  <1> HIDE DEF taken, agg
  <1>7. EntryOK(new) /\ SameTerms(taken, new)
    BY <1>3, <1>6, HoldStateOK, HoldTerms
  <1>8. ExactState(d, new, allowlist) /\ (taken.state # "Ready" => new.state # "Ready")
    BY <1>6, HoldStateComputed
  <1>9. SameTerms(dom, new)
    BY <1>4, <1>7 DEF SameTerms
  <1> HIDE DEF new
  <1>10. published' \in Seq(PublishedEntry)
    <2>1. [domain |-> d, aggregation |-> agg] \in PublishedEntry
      BY <1>1, <1>3 DEF PublishedEntry
    <2>2. published \in Seq(PublishedEntry)
      BY DEF IInv, TypeOK, PublishedEntry
    <2>3. QED
      BY <1>2, <2>1, <2>2
  <1>11. QED
    BY <1>2, <1>4, <1>5, <1>7, <1>8, <1>9, <1>10, UpdateEntry

LEMMA HoldStep ==
  ASSUME IInv, NEW u \in Users, NEW d \in DOMAIN domains, hold_domain(u, d)
  PROVE  IInv' /\ DomainAdvances
  <1> DEFINE dom == domains[d]
             new == update_hold_state(d, dom, allowlist)
  <1>1. /\ EntryOK(dom) /\ EntryTyped(dom)
        /\ (\E b \in Accounts : <<d, b>> \in allowlist) => dom.proof_rules = "OnlyAllowlisted"
    BY StoredEntry
  <1>2. /\ dom.state = "Ready"
        /\ set_domain(d, new)
        /\ UNCHANGED <<next_domain_id, allowlist, published>>
    BY DEF hold_domain
  <1>3. EntryOK(new) /\ SameTerms(dom, new) /\ ExactState(d, new, allowlist)
    BY <1>1, HoldStateOK, HoldTerms, HoldStateComputed
  <1> HIDE DEF new
  <1>4. published' \in Seq(PublishedEntry)
    BY <1>2 DEF IInv, TypeOK, PublishedEntry
  <1>5. QED
    BY <1>2, <1>3, <1>4, UpdateEntry

(***************************************************************************)
(* Changes of the delivery parameters and of the allowlist ticket.         *)
(***************************************************************************)
SameQueue(dom, new) ==
  /\ new.state = dom.state
  /\ new.next = dom.next
  /\ new.should_publish = dom.should_publish

LEMMA SameQueueOK ==
  ASSUME NEW dom, EntryOK(dom), NEW new, EntryTyped(new),
         SameTerms(dom, new), SameQueue(dom, new)
  PROVE  EntryOK(new)
  BY DEF EntryOK, EntryBounded, EntryOrdered, SameTerms, SameQueue

LEMMA DeliveryOK ==
  ASSUME NEW dom, EntryTyped(dom), NEW del \in [fee : Nat, owner_tip : Nat]
  PROVE  LET new == [dom EXCEPT !.delivery.fee = del.fee,
                                !.delivery.owner_tip = del.owner_tip]
         IN  EntryTyped(new) /\ SameTerms(dom, new) /\ SameQueue(dom, new)
  <1> DEFINE delivery == [dom.delivery EXCEPT !.fee = del.fee, !.owner_tip = del.owner_tip]
             new == [dom EXCEPT !.delivery = delivery]
  <1>1. /\ dom \in DomainEntry(DOMAIN dom.should_publish)
        /\ DOMAIN dom.should_publish \in SUBSET (0 .. U64Max)
    BY EntryFields
  <1>2. dom.delivery \in [owner : Accounts, fee : Nat, owner_tip : Nat]
    BY <1>1 DEF DomainEntry
  <1>3. delivery \in [owner : Accounts, fee : Nat, owner_tip : Nat]
    BY <1>2
  <1>4. new = [dom EXCEPT !.delivery.fee = del.fee, !.delivery.owner_tip = del.owner_tip]
    BY <1>1 DEF DomainEntry
  <1> HIDE DEF delivery
  <1>5. /\ new \in DomainEntry(DOMAIN dom.should_publish)
        /\ SameTerms(dom, new) /\ SameQueue(dom, new)
    BY <1>1, <1>3 DEF DomainEntry, SameTerms, SameQueue
  <1>6. EntryTyped(new)
    BY <1>1, <1>5 DEF EntryTyped
  <1> HIDE DEF new
  <1>7. QED
    BY <1>4, <1>5, <1>6

LEMMA FeeStep ==
  ASSUME IInv, NEW u \in Users, NEW d \in DOMAIN domains, NEW del \in Deliveries,
         set_total_delivery_fee(u, d, del)
  PROVE  IInv' /\ DomainAdvances
  <1> DEFINE dom == domains[d]
             new == [dom EXCEPT !.delivery.fee = del.fee, !.delivery.owner_tip = del.owner_tip]
  <1>1. EntryOK(dom) /\ EntryTyped(dom) /\ ExactState(d, dom, allowlist)
    BY StoredEntry
  <1>2. set_domain(d, new) /\ UNCHANGED <<next_domain_id, allowlist, published>>
    BY DEF set_total_delivery_fee
  <1>3. EntryTyped(new) /\ SameTerms(dom, new) /\ SameQueue(dom, new)
    <2>1. del \in [fee : Nat, owner_tip : Nat]
      BY InputAssumption
    <2>2. QED
      BY <1>1, <2>1, DeliveryOK
  <1> HIDE DEF new
  <1>4. EntryOK(new)
    BY <1>1, <1>3, SameQueueOK
  <1>5. ExactState(d, new, allowlist) /\ new.state = dom.state
    BY <1>1, <1>3 DEF ExactState, SameQueue
  <1>6. published' \in Seq(PublishedEntry)
    BY <1>2 DEF IInv, TypeOK, PublishedEntry
  <1>7. QED
    BY <1>2, <1>3, <1>4, <1>5, <1>6, UpdateEntry

LEMMA TicketOK ==
  ASSUME NEW dom, EntryOK(dom), NEW count,
         dom.ticket_allowlist # None => count \in Nat
  PROVE  LET new == update_ticket(dom, count)
         IN  EntryOK(new) /\ SameTerms(dom, new) /\ SameQueue(dom, new)
  <1> DEFINE ticket == IF dom.ticket_allowlist = None THEN None
                       ELSE [count |-> count, amount |-> allowlist_deposit(count)]
             new == [dom EXCEPT !.ticket_allowlist = ticket]
  <1>1. /\ dom \in DomainEntry(DOMAIN dom.should_publish)
        /\ DOMAIN dom.should_publish \in SUBSET (0 .. U64Max)
    BY EntryFields DEF EntryOK
  <1>2. update_ticket(dom, count) = new
    BY DEF update_ticket
  <1>3. ticket \in [count : Nat, amount : Nat] \cup {None}
    <2>1. CASE dom.ticket_allowlist # None
      <3>1. AllowlistBaseDeposit \in Nat /\ AllowlistItemDeposit \in Nat
        BY InputAssumption
      <3>2. count \in Nat /\ AllowlistItemDeposit * count \in Nat
        BY <2>1, <3>1
      <3>3. allowlist_deposit(count) \in Nat
        BY <3>1, <3>2 DEF allowlist_deposit
      <3>4. QED
        BY <2>1, <3>2, <3>3
    <2>2. QED
      BY <2>1
  <1> HIDE DEF ticket
  <1>4. /\ new \in DomainEntry(DOMAIN dom.should_publish)
        /\ SameTerms(dom, new) /\ SameQueue(dom, new)
    BY <1>1, <1>3 DEF DomainEntry, SameTerms, SameQueue
  <1>5. EntryTyped(new)
    BY <1>1, <1>4 DEF EntryTyped
  <1> HIDE DEF new
  <1>6. QED
    BY <1>2, <1>4, <1>5, SameQueueOK

(* The count of a ticket is a natural number, and so is what is added. *)
LEMMA CountTyped ==
  ASSUME NEW dom, EntryTyped(dom), NEW S \in SUBSET Accounts
  PROVE  ticket_count(dom) \in Nat /\ Cardinality(S) \in Nat
  <1>1. dom.ticket_allowlist \in [count : Nat, amount : Nat] \cup {None}
    <2>1. dom \in DomainEntry(DOMAIN dom.should_publish)
      BY EntryFields
    <2>2. QED
      BY <2>1 DEF DomainEntry
  <1>2. IsFiniteSet(S)
    BY ConfigAssumption, FS_Subset
  <1>3. QED
    BY <1>1, <1>2, FS_CardinalityType DEF ticket_count

LEMMA AllowStep ==
  ASSUME IInv, NEW u \in Users, NEW d \in DOMAIN domains, NEW s \in SUBSET Accounts,
         allowlist_proof_submitters(u, d, s)
  PROVE  IInv' /\ DomainAdvances
  <1> DEFINE dom == domains[d]
             added == {a \in s : <<d, a>> \notin allowlist}
             count == ticket_count(dom) + Cardinality(added)
             new == update_ticket(dom, count)
  <1>1. EntryOK(dom) /\ EntryTyped(dom) /\ d \in DomainId
    BY StoredEntry
  <1>2. /\ dom.state = "Ready"
        /\ dom.proof_rules = "OnlyAllowlisted"
        /\ allowlist' = allowlist \cup {<<d, a>> : a \in added}
        /\ set_domain(d, new)
        /\ UNCHANGED <<next_domain_id, published>>
    BY DEF allowlist_proof_submitters
  <1>3. added \in SUBSET Accounts
    OBVIOUS
  <1> HIDE DEF added
  <1>4. count \in Nat
    BY <1>1, <1>3, CountTyped
  <1> HIDE DEF count
  <1>5. EntryOK(new) /\ SameTerms(dom, new) /\ SameQueue(dom, new)
    BY <1>1, <1>4, TicketOK
  <1> HIDE DEF new
  <1>6. ExactState(d, new, allowlist') /\ new.state = "Ready"
    BY <1>2, <1>5 DEF ExactState, SameQueue
  <1>7. allowlist' \subseteq DomainId \X Accounts
    BY <1>1, <1>2, <1>3 DEF IInv, TypeOK
  <1>8. \A i \in DomainId, a \in Accounts :
          i # d => (<<i, a>> \in allowlist' <=> <<i, a>> \in allowlist)
    BY <1>2
  <1>9. new.proof_rules = "OnlyAllowlisted"
    BY <1>2, <1>5 DEF SameTerms
  <1>10. published' \in Seq(PublishedEntry)
    BY <1>2 DEF IInv, TypeOK, PublishedEntry
  <1>11. QED
    BY <1>2, <1>5, <1>6, <1>7, <1>8, <1>9, <1>10, UpdateOne

LEMMA RemoveStep ==
  ASSUME IInv, NEW u \in Users, NEW d \in DOMAIN domains, NEW s \in SUBSET Accounts,
         remove_proof_submitters(u, d, s)
  PROVE  IInv' /\ DomainAdvances
  <1> DEFINE dom == domains[d]
             removed == {a \in s : <<d, a>> \in allowlist}
             count == ticket_count(dom) - Cardinality(removed)
             allowed == allowlist \ {<<d, a>> : a \in removed}
             ticketed == update_ticket(dom, count)
             new == handle_hold_state(d, ticketed, allowed)
  <1>1. /\ EntryOK(dom) /\ EntryTyped(dom) /\ d \in DomainId
        /\ ExactState(d, dom, allowlist)
    BY StoredEntry
  <1>2. /\ dom.proof_rules = "OnlyAllowlisted"
        /\ dom.ticket_allowlist # None => count >= 0
        /\ allowlist' = allowed
        /\ set_domain(d, new)
        /\ UNCHANGED <<next_domain_id, published>>
    BY DEF remove_proof_submitters
  <1>3. removed \in SUBSET Accounts
    OBVIOUS
  <1>4. dom.ticket_allowlist # None => count \in Nat
    <2> HIDE DEF removed
    <2>1. ticket_count(dom) \in Nat /\ Cardinality(removed) \in Nat
      BY <1>1, <1>3, CountTyped
    <2>2. QED
      BY <1>2, <2>1
  <1>5. allowed \subseteq allowlist /\ allowlist \subseteq DomainId \X Accounts
    BY DEF IInv, TypeOK
  <1>6. \A i \in DomainId, a \in Accounts :
          i # d => (<<i, a>> \in allowed <=> <<i, a>> \in allowlist)
    OBVIOUS
  <1> HIDE DEF allowed, removed, count
  <1>7. EntryOK(ticketed) /\ SameTerms(dom, ticketed) /\ SameQueue(dom, ticketed)
    BY <1>1, <1>4, TicketOK
  <1> HIDE DEF ticketed
  <1>8. EntryTyped(ticketed) /\ ticketed.proof_rules = "OnlyAllowlisted"
    BY <1>2, <1>7 DEF EntryOK, SameTerms
  <1>9. EntryOK(new) /\ SameTerms(ticketed, new)
    BY <1>7, <1>8, HoldStateOK, HoldTerms
  <1>10. ExactState(d, new, allowed) /\ (ticketed.state # "Ready" => new.state # "Ready")
    BY <1>8, HoldStateComputed
  <1>11. dom.state = "Removable" => new.state = "Removable"
    <2> SUFFICES ASSUME dom.state = "Removable" PROVE new.state = "Removable"
      OBVIOUS
    <2>1. /\ DOMAIN dom.should_publish = {}
          /\ dom.next.statements = <<>>
          /\ ~ \E a \in Accounts : <<d, a>> \in allowed
      BY <1>1, <1>5 DEF ExactState
    <2>2. /\ ticketed.state = "Removable"
          /\ DOMAIN ticketed.should_publish = {}
          /\ ticketed.next.statements = <<>>
      BY <1>7, <2>1 DEF SameQueue
    <2>3. is_allowlist_empty(d, ticketed, allowed)
      BY <2>1 DEF is_allowlist_empty
    <2>4. new = [ticketed EXCEPT !.state = "Removable"]
      BY <2>2, <2>3 DEF handle_hold_state, update_hold_state
    <2>5. ticketed \in DomainEntry(DOMAIN ticketed.should_publish)
      BY <1>8, EntryFields
    <2> HIDE DEF new
    <2>6. QED
      BY <2>4, <2>5 DEF DomainEntry
  <1> HIDE DEF new
  <1>12. /\ SameTerms(dom, new)
         /\ new.proof_rules = "OnlyAllowlisted"
         /\ dom.state # "Ready" => new.state # "Ready"
    BY <1>2, <1>7, <1>9, <1>10 DEF SameTerms, SameQueue
  <1>13. published' \in Seq(PublishedEntry)
    BY <1>2 DEF IInv, TypeOK, PublishedEntry
  <1>14. /\ allowlist' \subseteq DomainId \X Accounts
         /\ ExactState(d, new, allowlist')
         /\ \A i \in DomainId, a \in Accounts :
              i # d => (<<i, a>> \in allowlist' <=> <<i, a>> \in allowlist)
    BY <1>2, <1>5, <1>6, <1>10
  <1>15. QED
    BY <1>2, <1>9, <1>11, <1>12, <1>13, <1>14, UpdateOne

(* The entry register_domain stores. *)
LEMMA RegisteredTyped ==
  ASSUME NEW ids, NEW owner \in Users, NEW state \in DomainState,
         NEW nxt \in AggregationEntry, NEW size \in Nat,
         NEW queue \in [ids -> AggregationEntry], NEW queue_size \in Nat,
         NEW paid \in Nat \cup {None},
         NEW ticket \in [count : Nat, amount : Nat] \cup {None},
         NEW arules \in AggregateSecurityRules, NEW prules \in ProofSecurityRules,
         NEW delivery \in [owner : Accounts, fee : Nat, owner_tip : Nat]
  PROVE  [owner |-> owner, state |-> state, next |-> nxt,
          max_aggregation_size |-> size, should_publish |-> queue,
          publish_queue_size |-> queue_size, ticket_domain |-> paid,
          ticket_allowlist |-> ticket, aggregate_rules |-> arules,
          proof_rules |-> prules, delivery |-> delivery] \in DomainEntry(ids)
  BY DEF DomainEntry

LEMMA RegisteredOK ==
  ASSUME NEW size, NEW queue_size, valid_domain_params(size, queue_size),
         NEW owner \in Users,
         NEW paid \in Nat \cup {None},
         NEW ticket \in [count : Nat, amount : Nat] \cup {None},
         NEW arules \in AggregateSecurityRules, NEW prules \in ProofSecurityRules,
         NEW delivery \in [owner : Accounts, fee : Nat, owner_tip : Nat]
  PROVE  LET dom == [owner |-> owner, state |-> "Ready",
                     next |-> AggregationCreate(1, size),
                     max_aggregation_size |-> size, should_publish |-> <<>>,
                     publish_queue_size |-> queue_size, ticket_domain |-> paid,
                     ticket_allowlist |-> ticket, aggregate_rules |-> arules,
                     proof_rules |-> prules, delivery |-> delivery]
         IN  EntryOK(dom) /\ dom.next.size = dom.max_aggregation_size
  <1> DEFINE first == AggregationCreate(1, size)
             empty == <<>>
             dom == [owner |-> owner, state |-> "Ready", next |-> first,
                     max_aggregation_size |-> size, should_publish |-> empty,
                     publish_queue_size |-> queue_size, ticket_domain |-> paid,
                     ticket_allowlist |-> ticket, aggregate_rules |-> arules,
                     proof_rules |-> prules, delivery |-> delivery]
  <1> SUFFICES EntryOK(dom) /\ dom.next.size = dom.max_aggregation_size
    OBVIOUS
  <1>1. /\ size \in Nat \ {0} /\ size <= AggregationSize
        /\ queue_size \in Nat /\ queue_size <= MaxPendingPublishQueueSize
    BY ConfigAssumption DEF valid_domain_params
  <1>2. /\ first \in AggregationEntry
        /\ first.size = size /\ first.id = 1 /\ first.statements = <<>>
    <2>1. 1 \in 0 .. U64Max
      BY ConfigAssumption
    <2>2. <<>> \in Seq(StatementEntry)
      OBVIOUS
    <2>3. QED
      BY <1>1, <2>1, <2>2 DEF AggregationCreate, AggregationEntry
  <1>3. empty \in [{} -> AggregationEntry] /\ DOMAIN empty = {}
    OBVIOUS
  <1> HIDE DEF first, empty
  <1>4. /\ dom.state = "Ready"
        /\ dom.next = first
        /\ dom.max_aggregation_size = size
        /\ dom.should_publish = empty
        /\ dom.publish_queue_size = queue_size
    OBVIOUS
  <1>5. dom \in DomainEntry({})
    <2>1. "Ready" \in DomainState
      BY DEF DomainState
    <2>2. QED
      BY <1>1, <1>2, <1>3, <2>1, RegisteredTyped
  <1> HIDE DEF dom
  <1>6. EntryTyped(dom)
    BY <1>5 DEF EntryTyped
  <1>7. EntryBounded(dom)
    <2>1. Len(dom.next.statements) = 0 /\ Cardinality(DOMAIN dom.should_publish) = 0
      BY <1>2, <1>3, <1>4, FS_EmptySet
    <2>2. QED
      BY <1>1, <1>2, <1>4, <2>1 DEF EntryBounded
  <1>8. EntryOrdered(dom)
    BY <1>2, <1>3, <1>4 DEF EntryOrdered
  <1>9. QED
    BY <1>2, <1>4, <1>6, <1>7, <1>8 DEF EntryOK

LEMMA RegisterStep ==
  ASSUME IInv, NEW u \in Users, NEW reg \in Registrations, register_domain(u, reg)
  PROVE  IInv' /\ DomainAdvances
  <1> DEFINE delivery_owner == IF reg.delivery_owner = None THEN u ELSE reg.delivery_owner
             queue_size == IF reg.queue_size = None THEN MaxPendingPublishQueueSize
                                                    ELSE reg.queue_size
             pays == u \in Accounts
             listed == pays /\ reg.proof_rules = "OnlyAllowlisted"
             deposit == domain_deposit(reg.aggregation_size, queue_size)
             ticket == IF listed THEN [count |-> 0, amount |-> allowlist_deposit(0)] ELSE None
             paid == IF pays THEN deposit ELSE None
             delivery == [owner |-> delivery_owner, fee |-> reg.fee, owner_tip |-> reg.owner_tip]
             id == next_domain_id
             new == [owner |-> u, state |-> "Ready",
                     next |-> AggregationCreate(1, reg.aggregation_size),
                     max_aggregation_size |-> reg.aggregation_size,
                     should_publish |-> <<>>,
                     publish_queue_size |-> queue_size,
                     ticket_domain |-> paid,
                     ticket_allowlist |-> ticket,
                     aggregate_rules |-> reg.aggregate_rules,
                     proof_rules |-> reg.proof_rules,
                     delivery |-> delivery]
  <1>1. TypeOK /\ EntriesOK /\ IdsHandedOut /\ AllowlistOwned /\ HoldStateExact
    BY DEF IInv
  <1>2. /\ delivery_owner # Manager
        /\ id # U32Max
        /\ valid_domain_params(reg.aggregation_size, queue_size)
        /\ set_domain(id, new)
        /\ next_domain_id' = id + 1
        /\ UNCHANGED <<allowlist, published>>
    BY DEF register_domain
  <1>3. /\ reg.aggregation_size \in Nat
        /\ reg.queue_size \in Nat \cup {None}
        /\ reg.aggregate_rules \in AggregateSecurityRules
        /\ reg.proof_rules \in ProofSecurityRules
        /\ reg.fee \in Nat /\ reg.owner_tip \in Nat
        /\ reg.delivery_owner \in Accounts \cup {None}
    BY InputAssumption DEF AggregateSecurityRules, ProofSecurityRules
  <1>4. delivery \in [owner : Accounts, fee : Nat, owner_tip : Nat]
    BY <1>2, <1>3 DEF Users
  <1>5. paid \in Nat \cup {None}
    <2>1. queue_size \in Nat /\ reg.aggregation_size \in Nat
      BY <1>3, ConfigAssumption
    <2> HIDE DEF queue_size
    <2>2. compute_encoded_size(reg.aggregation_size, queue_size) \in Nat
      BY <2>1 DEF compute_encoded_size
    <2>3. deposit \in Nat
      BY <2>2, InputAssumption DEF domain_deposit
    <2>4. QED
      BY <2>3
  <1>6. ticket \in [count : Nat, amount : Nat] \cup {None}
    <2>1. allowlist_deposit(0) \in Nat
      BY InputAssumption DEF allowlist_deposit
    <2>2. QED
      BY <2>1
  <1> HIDE DEF delivery, paid, ticket, queue_size
  <1>7. /\ new.owner = u
        /\ new.state = "Ready"
        /\ new.ticket_domain = paid
        /\ new.ticket_allowlist = ticket
        /\ new.aggregate_rules = reg.aggregate_rules
        /\ new.proof_rules = reg.proof_rules
        /\ new.delivery = delivery
    OBVIOUS
  <1>8. EntryOK(new) /\ new.next.size = new.max_aggregation_size
    <2>1. valid_domain_params(reg.aggregation_size, queue_size)
      BY <1>2
    <2>2. reg.aggregate_rules \in AggregateSecurityRules
      BY <1>3
    <2>3. reg.proof_rules \in ProofSecurityRules
      BY <1>3
    <2>4. QED
      BY <1>4, <1>5, <1>6, <2>1, <2>2, <2>3, RegisteredOK, ZenonT(60)
  <1> HIDE DEF new
  <1>9. /\ id \in DomainId /\ id + 1 \in DomainId
        /\ id < id + 1
        /\ DOMAIN domains \subseteq DomainId
        /\ id \notin DOMAIN domains
    <2>1. id \in 0 .. U32Max /\ U32Max \in Nat
      BY <1>1, ConfigAssumption DEF TypeOK, DomainId
    <2>2. DOMAIN domains \subseteq DomainId
      BY <1>1 DEF TypeOK
    <2>3. id \notin DOMAIN domains
      BY <1>1, <2>1 DEF IdsHandedOut
    <2>4. QED
      BY <1>2, <2>1, <2>2, <2>3 DEF DomainId
  <1>10. /\ domains' = [i \in DOMAIN domains \cup {id} |-> IF i = id THEN new ELSE domains[i]]
         /\ DOMAIN domains' = DOMAIN domains \cup {id}
         /\ domains'[id] = new
         /\ \A i \in DOMAIN domains : domains'[i] = domains[i]
    BY <1>2, <1>9 DEF set_domain
  <1>11. TypeOK'
    <2>1. \A i \in DOMAIN domains' :
            \E ids \in SUBSET (0 .. U64Max) : domains'[i] \in DomainEntry(ids)
      BY <1>1, <1>8, <1>10 DEF TypeOK, EntryOK, EntryTyped
    <2>2. domains' = [i \in DOMAIN domains' |-> domains'[i]]
      BY <1>10
    <2>3. QED
      BY <1>1, <1>2, <1>9, <1>10, <2>1, <2>2 DEF TypeOK
  <1>12. EntriesOK'
    BY <1>1, <1>8, <1>10 DEF EntriesOK
  <1>13. IdsHandedOut'
    <2> SUFFICES ASSUME NEW i \in DOMAIN domains \cup {id} PROVE i < id + 1
      BY <1>2, <1>10 DEF IdsHandedOut
    <2>1. id \in Nat /\ i \in Nat
      BY <1>9 DEF DomainId
    <2>2. QED
      BY <1>1, <2>1 DEF IdsHandedOut
  <1>14. AllowlistOwned'
    BY <1>1, <1>2, <1>10 DEF AllowlistOwned
  <1>15. HoldStateExact'
    <2> SUFFICES ASSUME NEW i \in DOMAIN domains \cup {id}, domains'[i].state # "Ready"
                 PROVE  (domains[i].state = "Removable")' <=> Drained(i)'
      BY <1>10 DEF HoldStateExact
    <2>1. i \in DOMAIN domains
      BY <1>7, <1>10
    <2>2. domains'[i] = domains[i] /\ allowlist' = allowlist
      BY <1>2, <1>10, <2>1
    <2>3. QED
      BY <1>1, <2>1, <2>2 DEF HoldStateExact, Drained
  <1>16. DomainAdvances
    <2>1. \A i \in DOMAIN domains : domains[i].next.size = domains[i].max_aggregation_size
      BY <1>1 DEF EntriesOK
    <2>2. QED
      BY <1>2, <1>9, <1>10, <2>1 DEF DomainAdvances
  <1>17. QED
    BY <1>11, <1>12, <1>13, <1>14, <1>15, <1>16 DEF IInv

(* A domain is removed only when drained, so nothing of it is left. *)
LEMMA UnregisterStep ==
  ASSUME IInv, NEW u \in Users, NEW d \in DOMAIN domains, unregister_domain(u, d)
  PROVE  IInv' /\ DomainAdvances
  <1>1. TypeOK /\ EntriesOK /\ IdsHandedOut /\ AllowlistOwned /\ HoldStateExact
    BY DEF IInv
  <1>2. /\ domains[d].state = "Removable"
        /\ domains' = [i \in DOMAIN domains \ {d} |-> domains[i]]
        /\ UNCHANGED <<next_domain_id, allowlist, published>>
    BY DEF unregister_domain
  <1>3. /\ DOMAIN domains' = DOMAIN domains \ {d}
        /\ \A i \in DOMAIN domains' : domains'[i] = domains[i]
    BY <1>2
  <1>4. \A a \in Accounts : <<d, a>> \notin allowlist
    BY <1>1, <1>2 DEF HoldStateExact, Drained
  <1>5. TypeOK'
    BY <1>1, <1>2, <1>3 DEF TypeOK
  <1>6. EntriesOK' /\ IdsHandedOut'
    BY <1>1, <1>2, <1>3 DEF EntriesOK, IdsHandedOut
  <1>7. AllowlistOwned'
    BY <1>1, <1>2, <1>3, <1>4 DEF AllowlistOwned
  <1>8. HoldStateExact'
    BY <1>1, <1>2, <1>3 DEF HoldStateExact, Drained
  <1>9. DomainAdvances
    <2>1. \A i \in DOMAIN domains : domains[i].next.size = domains[i].max_aggregation_size
      BY <1>1 DEF EntriesOK
    <2>2. QED
      BY <1>2, <1>3, <2>1 DEF DomainAdvances
  <1>10. QED
    BY <1>5, <1>6, <1>7, <1>8, <1>9 DEF IInv

(* Steps that leave the domains and the allowlist alone. *)
LEMMA QuietStep ==
  ASSUME IInv, UNCHANGED <<next_domain_id, domains, allowlist>>,
         published' \in Seq(PublishedEntry)
  PROVE  IInv' /\ DomainAdvances
  <1>1. /\ next_domain_id' = next_domain_id
        /\ domains' = domains
        /\ allowlist' = allowlist
    OBVIOUS
  <1>2. TypeOK'
    BY <1>1 DEF IInv, TypeOK, PublishedEntry
  <1>3. EntriesOK' /\ IdsHandedOut' /\ AllowlistOwned' /\ HoldStateExact'
    BY <1>1 DEF IInv, EntriesOK, IdsHandedOut, AllowlistOwned, HoldStateExact, Drained
  <1>4. DomainAdvances
    BY <1>1 DEF IInv, EntriesOK, DomainAdvances
  <1>5. QED
    BY <1>2, <1>3, <1>4 DEF IInv

LEMMA StepInv == IInv /\ [Next]_vars => IInv' /\ DomainAdvances
  <1> SUFFICES ASSUME IInv, [Next]_vars PROVE IInv' /\ DomainAdvances
    OBVIOUS
  <1>0. published \in Seq(PublishedEntry) /\ <<>> \in Seq(PublishedEntry)
    BY DEF IInv, TypeOK, PublishedEntry
  <1>1. CASE \E u \in Users, reg \in Registrations : register_domain(u, reg)
    BY <1>1, RegisterStep
  <1>2. ASSUME NEW d \in DOMAIN domains,
               \/ \E a \in Accounts, s \in Statements, e \in CallFees :
                    on_proof_verified(a, d, s, e)
               \/ \E u \in Users : \E id \in PendingIds(domains[d]) : aggregate(u, d, id)
               \/ \E u \in Users : hold_domain(u, d)
               \/ \E u \in Users : unregister_domain(u, d)
               \/ \E u \in Users, del \in Deliveries : set_total_delivery_fee(u, d, del)
               \/ \E u \in Users, s \in SUBSET Accounts : allowlist_proof_submitters(u, d, s)
               \/ \E u \in Users, s \in SUBSET Accounts : remove_proof_submitters(u, d, s)
        PROVE  IInv' /\ DomainAdvances
    BY <1>2, SubmitStep, AggregateStep, HoldStep, UnregisterStep, FeeStep, AllowStep,
       RemoveStep
  <1>3. CASE on_initialize
    BY <1>0, <1>3, QuietStep DEF on_initialize
  <1>4. CASE \E a \in Accounts, n \in FreezeAmounts : set_freeze(a, n)
    BY <1>0, <1>4, QuietStep DEF set_freeze
  <1>5. CASE UNCHANGED vars
    BY <1>0, <1>5, QuietStep DEF vars
  <1>6. QED
    BY <1>1, <1>2, <1>3, <1>4, <1>5 DEF Next

LEMMA InitInv == Init => IInv
  <1> SUFFICES ASSUME Init PROVE IInv
    OBVIOUS
  <1>1. /\ next_domain_id = 0
        /\ domains = <<>> /\ DOMAIN domains = {}
        /\ allowlist = {}
        /\ published = <<>>
    BY DEF Init
  <1>2. 0 \in DomainId
    BY ConfigAssumption DEF DomainId
  <1>3. domains = [d \in DOMAIN domains |-> domains[d]]
    BY <1>1
  <1>4. TypeOK
    BY <1>1, <1>2, <1>3 DEF TypeOK
  <1>5. QED
    BY <1>1, <1>4 DEF IInv, EntriesOK, IdsHandedOut, AllowlistOwned, HoldStateExact
-----------------------------------------------------------------------------
(* The invariant holds of every reachable state. *)
THEOREM Invariance == Spec => []IInv
  <1>1. IInv /\ [Next]_vars => IInv'
    BY StepInv
  <1>2. QED
    BY <1>1, InitInv, PTL DEF Spec

(* The storage of the pallet always has its declared types: no id passes   *)
(* the width of its type, although both id counters are only incremented.  *)
THEOREM TypeCorrect == Spec => []TypeOK
  <1>1. IInv => TypeOK
    BY DEF IInv
  <1>2. QED
    BY <1>1, Invariance, PTL

(* No bounded collection of the pallet overflows, so the two expects in    *)
(* append_statement and available_aggregation are never reached.           *)
THEOREM QueuesBounded == Spec => []QueueBounded
  <1>1. IInv => QueueBounded
    BY DEF IInv, EntriesOK, EntryOK, EntryBounded, QueueBounded
  <1>2. QED
    BY <1>1, Invariance, PTL

(* A queued aggregation is complete, stored under its own id and older     *)
(* than the one being filled; exhausted ids close the domain.              *)
THEOREM IdsStayOrdered == Spec => []IdsOrdered
  <1>1. IInv => IdsOrdered
    BY DEF IInv, EntriesOK, EntryOK, EntryOrdered, IdsOrdered
  <1>2. QED
    BY <1>1, Invariance, PTL

(* A domain that left Ready is Removable exactly when nothing of it is     *)
(* left, after every interleaving of publications and list removals.       *)
THEOREM HoldStateIsExact == Spec => []HoldStateExact
  <1>1. IInv => HoldStateExact
    BY DEF IInv
  <1>2. QED
    BY <1>1, Invariance, PTL

(* A domain never goes back to Ready, is removed only when Removable, and  *)
(* never changes owner, sizes or rules; a new one has a fresh id.          *)
THEOREM DomainsOnlyAdvance == Spec => DomainOnlyAdvances
  <1>1. IInv /\ [Next]_vars => [DomainAdvances]_domains
    BY StepInv
  <1>2. QED
    BY <1>1, Invariance, PTL DEF Spec, DomainOnlyAdvances
-----------------------------------------------------------------------------
(***************************************************************************)
(* The refinement: what waits in the queues of a domain entry, and what    *)
(* the operations on an entry do to it.                                    *)
(***************************************************************************)
(* The waiting batches of one domain entry, and what each one holds. *)
Batches(dom) ==
  {i \in 0 .. U64Max : \/ i \in DOMAIN dom.should_publish
                       \/ i = dom.next.id /\ dom.next.statements # <<>>}

Batch(dom, i) ==
  IF i \in DOMAIN dom.should_publish THEN StatementsOf(dom.should_publish[i])
                                     ELSE StatementsOf(dom.next)

(* Only the queue matters. *)
LEMMA BatchesSame ==
  ASSUME NEW dom, NEW new, new.next = dom.next, new.should_publish = dom.should_publish,
         NEW i
  PROVE  Batches(new) = Batches(dom) /\ Batch(new, i) = Batch(dom, i)
  BY DEF Batches, Batch

LEMMA HoldQueue ==
  ASSUME NEW d, NEW dom, NEW allowed, EntryTyped(dom)
  PROVE  /\ update_hold_state(d, dom, allowed).next = dom.next
         /\ update_hold_state(d, dom, allowed).should_publish = dom.should_publish
         /\ handle_hold_state(d, dom, allowed).next = dom.next
         /\ handle_hold_state(d, dom, allowed).should_publish = dom.should_publish
         /\ dom.state = "Ready" => handle_hold_state(d, dom, allowed).state = "Ready"
  <1>1. dom \in DomainEntry(DOMAIN dom.should_publish)
    BY EntryFields
  <1>2. \A st : /\ [dom EXCEPT !.state = st].next = dom.next
                /\ [dom EXCEPT !.state = st].should_publish = dom.should_publish
    BY <1>1 DEF DomainEntry
  <1>3. QED
    BY <1>2 DEF update_hold_state, handle_hold_state

(* A statement more in an aggregation is one more in its receipt. *)
LEMMA StatementsAppend ==
  ASSUME NEW agg \in AggregationEntry, NEW new, NEW e \in StatementEntry,
         new.statements = Append(agg.statements, e)
  PROVE  StatementsOf(new) = Append(StatementsOf(agg), e.statement)
  <1> DEFINE s == agg.statements
             t == StatementsOf(agg)
  <1>1. s \in Seq(StatementEntry)
    BY DEF AggregationEntry
  <1>2. /\ Len(s) \in Nat /\ DOMAIN s = 1 .. Len(s)
        /\ \A i \in 1 .. Len(s) : s[i] \in StatementEntry
    BY <1>1
  <1>3. \A i \in 1 .. Len(s) : s[i].statement \in Statements
    BY <1>2 DEF StatementEntry
  <1>4. e.statement \in Statements
    BY DEF StatementEntry
  <1>5. t = [i \in 1 .. Len(s) |-> s[i].statement]
    BY <1>2 DEF StatementsOf
  <1>6. t \in Seq(Statements) /\ Len(t) = Len(s)
    <2>1. t \in [1 .. Len(s) -> Statements]
      BY <1>3, <1>5
    <2>2. t \in Seq(Statements)
      BY <1>2, <2>1
    <2>3. QED
      BY <1>2, <2>1, <2>2
  <1>7. /\ DOMAIN Append(s, e) = 1 .. Len(s) + 1
        /\ \A i \in 1 .. Len(s) + 1 : Append(s, e)[i] = IF i = Len(s) + 1 THEN e ELSE s[i]
    BY <1>1, <1>2
  <1>8. StatementsOf(new) = [i \in 1 .. Len(s) + 1 |-> IF i = Len(s) + 1 THEN e.statement ELSE s[i].statement]
    BY <1>7 DEF StatementsOf
  <1>9. Append(t, e.statement) = [i \in 1 .. Len(s) + 1 |-> IF i = Len(s) + 1 THEN e.statement ELSE s[i].statement]
    <2> HIDE DEF t, s
    <2>1. Append(t, e.statement) = [i \in 1 .. Len(t) + 1 |-> IF i = Len(t) + 1 THEN e.statement ELSE t[i]]
      BY <1>4, <1>6
    <2>2. \A i \in 1 .. Len(s) + 1 : i # Len(s) + 1 => t[i] = s[i].statement
      BY <1>2, <1>5
    <2>3. QED
      BY <1>6, <2>1, <2>2
  <1>10. QED
    BY <1>8, <1>9
(* What append_statement does to the queue. *)
Joined(dom, new, e) ==
  /\ new.should_publish = dom.should_publish
  /\ new.next \in AggregationEntry
  /\ new.next.id = dom.next.id
  /\ new.next.statements = Append(dom.next.statements, e)

Filled(dom, new, e) ==
  /\ new.next.statements = <<>>
  /\ new.next.id # 0 => new.next.id = dom.next.id + 1
  /\ DOMAIN new.should_publish = DOMAIN dom.should_publish \cup {dom.next.id}
  /\ new.should_publish[dom.next.id] \in AggregationEntry
  /\ new.should_publish[dom.next.id].statements = Append(dom.next.statements, e)
  /\ \A i \in DOMAIN dom.should_publish : new.should_publish[i] = dom.should_publish[i]

LEMMA AppendQueue ==
  ASSUME NEW dom, EntryOK(dom), dom.state = "Ready", NEW e \in StatementEntry
  PROVE  LET new == append_statement(dom, e)
         IN  Joined(dom, new, e) \/ Filled(dom, new, e)
  <1> DEFINE ids == DOMAIN dom.should_publish
             filled == [dom.next EXCEPT !.statements = Append(@, e)]
             added == [dom EXCEPT !.next.statements = Append(@, e)]
             new == append_statement(dom, e)
  <1>1. EntryTyped(dom) /\ EntryBounded(dom) /\ EntryOrdered(dom)
    BY DEF EntryOK
  <1>2. /\ dom \in DomainEntry(ids)
        /\ ids \in SUBSET (0 .. U64Max)
        /\ dom.next \in AggregationEntry
        /\ dom.next.id \in 0 .. U64Max
        /\ dom.next.size \in Nat /\ dom.next.size # 0
        /\ dom.next.statements \in Seq(StatementEntry)
        /\ dom.should_publish \in [ids -> AggregationEntry]
    BY <1>1, EntryFields DEF EntryBounded
  <1>3. dom.next.id \notin ids
    <2> SUFFICES ASSUME dom.next.id \in ids PROVE FALSE
      OBVIOUS
    <2>1. dom.next.id # 0
      BY <1>1 DEF EntryOrdered
    <2>2. dom.next.id < dom.next.id
      BY <1>1, <2>1 DEF EntryOrdered
    <2>3. QED
      BY <1>2, <2>2
  <1>4. /\ filled \in AggregationEntry
        /\ filled.id = dom.next.id
        /\ filled.size = dom.next.size
        /\ filled.statements = Append(dom.next.statements, e)
    <2> DEFINE longer == Append(dom.next.statements, e)
    <2>1. longer \in Seq(StatementEntry)
      BY <1>2
    <2>2. filled = [dom.next EXCEPT !.statements = longer]
      BY <1>2 DEF AggregationEntry
    <2> HIDE DEF longer, filled
    <2>3. /\ filled \in AggregationEntry
          /\ filled.id = dom.next.id
          /\ filled.size = dom.next.size
          /\ filled.statements = longer
      BY <1>2, <2>1, <2>2 DEF AggregationEntry
    <2>4. QED
      BY <2>1, <2>3 DEF longer
  <1>5. /\ added \in DomainEntry(ids)
        /\ added.next = filled
        /\ added.should_publish = dom.should_publish
    <2>1. added = [dom EXCEPT !.next = filled]
      BY <1>2 DEF DomainEntry
    <2> HIDE DEF added, filled
    <2>2. QED
      BY <1>2, <1>4, <2>1 DEF DomainEntry
  <1> HIDE DEF filled
  <1>6. EntryTyped(added)
    BY <1>2, <1>5 DEF EntryTyped
  <1>7. CASE ~ is_next_aggregation_complete(added)
    <2>1. new = added
      BY <1>7 DEF append_statement
    <2> HIDE DEF new, added
    <2>2. Joined(dom, new, e)
      BY <1>4, <1>5, <2>1 DEF Joined
    <2>3. QED
      BY <2>2 DEF new
  <1>8. CASE is_next_aggregation_complete(added)
    <2> DEFINE popped == pop_next_aggregation(added)
               queue == [i \in ids \cup {filled.id} |->
                           IF i = filled.id THEN filled ELSE dom.should_publish[i]]
    <2>2. /\ EntryTyped(popped)
          /\ popped.next.statements = <<>>
          /\ popped.next.id # 0 => popped.next.id = dom.next.id + 1
          /\ popped.should_publish = dom.should_publish
      <3> HIDE DEF added
      <3>2. QED
        BY <1>2, <1>4, <1>5, <1>6, PopFields
    <2>3. new = [popped EXCEPT !.should_publish = queue]
      <3>1. new = available_aggregation(popped, filled)
        BY <1>5, <1>8 DEF append_statement
      <3> HIDE DEF popped, new
      <3>2. QED
        BY <2>2, <3>1 DEF available_aggregation
    <2>4. popped \in DomainEntry(ids)
      BY <2>2, EntryFields
    <2>5. /\ DOMAIN queue = ids \cup {dom.next.id}
          /\ queue[dom.next.id] = filled
          /\ \A i \in ids : queue[i] = dom.should_publish[i]
      BY <1>3, <1>4
    <2> HIDE DEF popped, queue, new
    <2>6. /\ new.next = popped.next
          /\ new.should_publish = queue
      BY <2>3, <2>4 DEF DomainEntry
    <2>7. Filled(dom, new, e)
      BY <1>4, <2>2, <2>5, <2>6 DEF Filled
    <2>8. QED
      BY <2>7 DEF new
  <1>9. QED
    BY <1>7, <1>8

(* The batch that is being filled gains the statement, the others stay. *)
LEMMA AppendBatches ==
  ASSUME NEW dom, EntryOK(dom), NEW new, NEW e \in StatementEntry,
         dom.next.id # 0,
         Joined(dom, new, e) \/ Filled(dom, new, e)
  PROVE  LET id == dom.next.id
             old == IF id \in Batches(dom) THEN Batch(dom, id) ELSE <<>>
         IN  /\ Batches(new) = Batches(dom) \cup {id}
             /\ Batch(new, id) = Append(old, e.statement)
             /\ \A i \in Batches(dom) \ {id} : Batch(new, i) = Batch(dom, i)
  <1> DEFINE id == dom.next.id
             ids == DOMAIN dom.should_publish
             old == IF id \in Batches(dom) THEN Batch(dom, id) ELSE <<>>
  <1>1. EntryTyped(dom) /\ EntryOrdered(dom)
    BY DEF EntryOK
  <1>2. /\ ids \subseteq 0 .. U64Max
        /\ dom.next \in AggregationEntry
        /\ id \in 0 .. U64Max
        /\ dom.next.statements \in Seq(StatementEntry)
    BY <1>1, EntryFields
  <1>3. id \notin ids
    <2> SUFFICES ASSUME id \in ids PROVE FALSE
      OBVIOUS
    <2>1. id < id
      BY <1>1 DEF EntryOrdered
    <2>2. QED
      BY <1>2, <2>1
  <1>4. old = StatementsOf(dom.next)
    <2>1. CASE dom.next.statements = <<>>
      <3>1. StatementsOf(dom.next) = <<>>
        BY <2>1 DEF StatementsOf
      <3>2. id \notin Batches(dom)
        BY <1>3, <2>1 DEF Batches
      <3>3. QED
        BY <3>1, <3>2
    <2>2. CASE dom.next.statements # <<>>
      BY <1>2, <1>3, <2>2 DEF Batches, Batch
    <2>3. QED
      BY <2>1, <2>2
  <1>5. Append(dom.next.statements, e) # <<>>
    BY <1>2
  <1>6. CASE Joined(dom, new, e)
    <2>1. /\ new.should_publish = dom.should_publish
          /\ new.next.id = id
          /\ new.next.statements = Append(dom.next.statements, e)
      BY <1>6 DEF Joined
    <2>2. Batches(new) = Batches(dom) \cup {id}
      BY <1>2, <1>5, <2>1 DEF Batches
    <2>3. Batch(new, id) = StatementsOf(new.next)
      BY <1>3, <2>1 DEF Batch
    <2>4. StatementsOf(new.next) = Append(StatementsOf(dom.next), e.statement)
      BY <1>2, <2>1, StatementsAppend
    <2>5. \A i \in Batches(dom) \ {id} : Batch(new, i) = Batch(dom, i)
      BY <2>1 DEF Batches, Batch
    <2> HIDE DEF old
    <2>6. QED
      BY <1>4, <2>2, <2>3, <2>4, <2>5 DEF old
  <1>7. CASE Filled(dom, new, e)
    <2>1. /\ new.next.statements = <<>>
          /\ DOMAIN new.should_publish = ids \cup {id}
          /\ new.should_publish[id].statements = Append(dom.next.statements, e)
          /\ \A i \in ids : new.should_publish[i] = dom.should_publish[i]
      BY <1>7 DEF Filled
    <2>2. Batches(new) = Batches(dom) \cup {id}
      BY <1>2, <2>1 DEF Batches
    <2>3. Batch(new, id) = StatementsOf(new.should_publish[id])
      BY <2>1 DEF Batch
    <2>4. StatementsOf(new.should_publish[id]) = Append(StatementsOf(dom.next), e.statement)
      BY <1>2, <2>1, StatementsAppend
    <2>5. \A i \in Batches(dom) \ {id} : Batch(new, i) = Batch(dom, i)
      BY <2>1 DEF Batches, Batch
    <2> HIDE DEF old
    <2>6. QED
      BY <1>4, <2>2, <2>3, <2>4, <2>5 DEF old
  <1>8. QED
    BY <1>6, <1>7

(* What take_aggregation does to the queue. *)
Emptied(dom, new) ==
  /\ new.should_publish = dom.should_publish
  /\ new.next.statements = <<>>
  /\ new.next.id # 0 => new.next.id = dom.next.id + 1

Dequeued(dom, new, id) ==
  /\ new.next = dom.next
  /\ DOMAIN new.should_publish = DOMAIN dom.should_publish \ {id}
  /\ \A i \in DOMAIN new.should_publish : new.should_publish[i] = dom.should_publish[i]

LEMMA TakeQueue ==
  ASSUME NEW dom, EntryOK(dom), NEW id, can_take_aggregation(dom, id)
  PROVE  LET new == take_aggregation(dom, id)
         IN  IF dom.next.id = id THEN Emptied(dom, new) ELSE Dequeued(dom, new, id)
  <1> DEFINE new == take_aggregation(dom, id)
             ids == DOMAIN dom.should_publish
  <1>0. EntryTyped(dom) /\ EntryBounded(dom)
    BY DEF EntryOK
  <1>1. dom \in DomainEntry(ids) /\ dom.next.size # 0
    BY <1>0, EntryFields DEF EntryBounded
  <1>2. CASE dom.next.id = id
    <2>1. new = pop_next_aggregation(dom)
      BY <1>2 DEF take_aggregation
    <2>2. Emptied(dom, new)
      BY <1>0, <1>1, <2>1, PopFields DEF Emptied
    <2>3. QED
      BY <1>2, <2>2
  <1>3. CASE dom.next.id # id
    <2> DEFINE rest == [i \in ids \ {id} |-> dom.should_publish[i]]
    <2>1. new = [dom EXCEPT !.should_publish = rest]
      BY <1>3 DEF take_aggregation
    <2>2. DOMAIN rest = ids \ {id} /\ \A i \in ids \ {id} : rest[i] = dom.should_publish[i]
      OBVIOUS
    <2> HIDE DEF rest, new
    <2>3. new.next = dom.next /\ new.should_publish = rest
      BY <1>1, <2>1 DEF DomainEntry
    <2>4. Dequeued(dom, new, id)
      BY <2>2, <2>3 DEF Dequeued
    <2>5. QED
      BY <1>3, <2>4 DEF new
  <1>4. QED
    BY <1>2, <1>3

(* What is taken is a waiting batch; the others stay. *)
LEMMA TakeBatches ==
  ASSUME NEW dom, EntryOK(dom), NEW id, can_take_aggregation(dom, id), NEW new,
         IF dom.next.id = id THEN Emptied(dom, new) ELSE Dequeued(dom, new, id)
  PROVE  /\ id \in Batches(dom)
         /\ Batch(dom, id) = StatementsOf(taken_aggregation(dom, id))
         /\ Batches(new) = Batches(dom) \ {id}
         /\ \A i \in Batches(dom) \ {id} : Batch(new, i) = Batch(dom, i)
  <1> DEFINE ids == DOMAIN dom.should_publish
  <1>1. EntryTyped(dom) /\ EntryOrdered(dom)
    BY DEF EntryOK
  <1>2. ids \subseteq 0 .. U64Max /\ dom.next.id \in 0 .. U64Max
    BY <1>1, EntryFields
  <1>3. ASSUME dom.next.id \in ids PROVE dom.next.id = 0 /\ FALSE
    <2>1. dom.next.id >= 1
      BY <1>1, <1>3 DEF EntryOrdered
    <2>2. dom.next.id # 0 => dom.next.id < dom.next.id
      BY <1>1, <1>3 DEF EntryOrdered
    <2>3. QED
      BY <1>2, <2>1, <2>2
  <1>4. CASE dom.next.id = id
    <2>1. /\ new.should_publish = dom.should_publish
          /\ new.next.statements = <<>>
      BY <1>4 DEF Emptied
    <2>2. dom.next.statements # <<>>
      BY <1>4 DEF can_take_aggregation
    <2>3. id \notin ids
      BY <1>3, <1>4
    <2>4. id \in Batches(dom) /\ Batch(dom, id) = StatementsOf(taken_aggregation(dom, id))
      BY <1>2, <1>4, <2>2, <2>3 DEF Batches, Batch, taken_aggregation
    <2>5. Batches(new) = Batches(dom) \ {id}
      BY <1>2, <1>4, <2>1, <2>3 DEF Batches
    <2>6. \A i \in Batches(dom) \ {id} : Batch(new, i) = Batch(dom, i)
      BY <1>4, <2>1 DEF Batches, Batch
    <2>7. QED
      BY <2>4, <2>5, <2>6
  <1>5. CASE dom.next.id # id
    <2>1. /\ new.next = dom.next
          /\ DOMAIN new.should_publish = ids \ {id}
          /\ \A i \in ids \ {id} : new.should_publish[i] = dom.should_publish[i]
      BY <1>5 DEF Dequeued
    <2>2. id \in ids
      BY <1>5 DEF can_take_aggregation
    <2>3. id \in Batches(dom) /\ Batch(dom, id) = StatementsOf(taken_aggregation(dom, id))
      BY <1>2, <1>5, <2>2 DEF Batches, Batch, taken_aggregation
    <2>4. Batches(new) = Batches(dom) \ {id}
      BY <1>2, <1>5, <2>1 DEF Batches
    <2>5. \A i \in Batches(dom) \ {id} : Batch(new, i) = Batch(dom, i)
      BY <1>5, <2>1 DEF Batches, Batch
    <2>6. QED
      BY <2>3, <2>4, <2>5
  <1>6. QED
    BY <1>4, <1>5

(***************************************************************************)
(* The waiting batches of all domains, as a function of the stored map.    *)
(***************************************************************************)
Key == DomainId \X (0 .. U64Max)

KeysIn(doms) == {k \in Key : k[1] \in DOMAIN doms /\ k[2] \in Batches(doms[k[1]])}

BatchesIn(doms) == [k \in KeysIn(doms) |-> Batch(doms[k[1]], k[2])]

LEMMA WaitingIs ==
  Waiting = BatchesIn(domains) /\ WaitingKeys = KeysIn(domains)
  <1>1. WaitingKeys = KeysIn(domains)
    BY DEF WaitingKeys, KeysIn, Batches, Key
  <1>2. Waiting = [k \in KeysIn(domains) |-> Batch(domains[k[1]], k[2])]
    BY <1>1 DEF Waiting, Batch
  <1>3. QED
    BY <1>1, <1>2 DEF BatchesIn

LEMMA WaitingIsPrime ==
  Waiting' = BatchesIn(domains') /\ WaitingKeys' = KeysIn(domains')
  <1>1. WaitingKeys' = KeysIn(domains')
    BY DEF WaitingKeys, KeysIn, Batches, Key
  <1>2. Waiting' = [k \in KeysIn(domains') |-> Batch(domains'[k[1]], k[2])]
    BY <1>1 DEF Waiting, Batch
  <1>3. QED
    BY <1>1, <1>2 DEF BatchesIn

(* new is doms but for the entry of d. *)
Elsewhere(doms, new, d) ==
  /\ d \in DOMAIN doms
  /\ DOMAIN new = DOMAIN doms
  /\ \A i \in DOMAIN doms : i # d => new[i] = doms[i]

LEMMA BatchesUnchanged ==
  ASSUME NEW doms, NEW new, DOMAIN new = DOMAIN doms,
         \A i \in DOMAIN doms : /\ Batches(new[i]) = Batches(doms[i])
                                /\ \A j \in Batches(doms[i]) : Batch(new[i], j) = Batch(doms[i], j)
  PROVE  BatchesIn(new) = BatchesIn(doms)
  <1>1. KeysIn(new) = KeysIn(doms)
    BY DEF KeysIn
  <1>2. \A k \in KeysIn(doms) : Batch(new[k[1]], k[2]) = Batch(doms[k[1]], k[2])
    BY DEF KeysIn
  <1>3. QED
    BY <1>1, <1>2 DEF BatchesIn

LEMMA BatchGrows ==
  ASSUME NEW doms, NEW new, NEW d \in DomainId, NEW id \in 0 .. U64Max, NEW st,
         Elsewhere(doms, new, d),
         Batches(new[d]) = Batches(doms[d]) \cup {id},
         Batch(new[d], id) = st,
         \A i \in Batches(doms[d]) \ {id} : Batch(new[d], i) = Batch(doms[d], i)
  PROVE  BatchesIn(new) = [j \in DOMAIN BatchesIn(doms) \cup {<<d, id>>} |->
                             IF j = <<d, id>> THEN st ELSE BatchesIn(doms)[j]]
  <1>1. DOMAIN BatchesIn(doms) = KeysIn(doms)
    BY DEF BatchesIn
  <1>2. \A j \in KeysIn(doms) : BatchesIn(doms)[j] = Batch(doms[j[1]], j[2])
    BY DEF BatchesIn
  <1>3. KeysIn(new) = KeysIn(doms) \cup {<<d, id>>}
    <2>1. ASSUME NEW k \in Key
          PROVE  k \in KeysIn(new) <=> k \in KeysIn(doms) \/ k = <<d, id>>
      <3>1. PICK i \in DomainId, j \in 0 .. U64Max : k = <<i, j>>
        BY DEF Key
      <3>2. CASE i = d
        BY <3>1, <3>2 DEF KeysIn, Elsewhere
      <3>3. CASE i # d
        BY <3>1, <3>3 DEF KeysIn, Elsewhere
      <3>4. QED
        BY <3>2, <3>3
    <2>2. <<d, id>> \in Key /\ KeysIn(new) \subseteq Key /\ KeysIn(doms) \subseteq Key
      BY DEF Key, KeysIn
    <2>3. QED
      BY <2>1, <2>2
  <1>4. ASSUME NEW k \in KeysIn(new)
        PROVE  Batch(new[k[1]], k[2]) = IF k = <<d, id>> THEN st ELSE Batch(doms[k[1]], k[2])
    <2>1. PICK i \in DomainId, j \in 0 .. U64Max : k = <<i, j>>
      BY DEF Key, KeysIn
    <2>2. CASE i = d
      BY <2>1, <2>2 DEF KeysIn
    <2>3. CASE i # d
      BY <2>1, <2>3 DEF KeysIn, Elsewhere
    <2>4. QED
      BY <2>2, <2>3
  <1>5. \A k \in KeysIn(new) : k # <<d, id>> => k \in KeysIn(doms)
    BY <1>3
  <1>6. BatchesIn(new) = [k \in KeysIn(doms) \cup {<<d, id>>} |-> Batch(new[k[1]], k[2])]
    BY <1>3 DEF BatchesIn
  <1>7. QED
    BY <1>1, <1>2, <1>3, <1>4, <1>5, <1>6

(* The batches of dom but id are those of new. *)
KeptBut(dom, new, id) ==
  /\ Batches(new) = Batches(dom) \ {id}
  /\ \A i \in Batches(dom) \ {id} : Batch(new, i) = Batch(dom, i)

LEMMA BatchLeaves ==
  ASSUME NEW doms, NEW new, NEW d \in DomainId, NEW id \in 0 .. U64Max,
         Elsewhere(doms, new, d),
         KeptBut(doms[d], new[d], id)
  PROVE  BatchesIn(new) = [j \in DOMAIN BatchesIn(doms) \ {<<d, id>>} |-> BatchesIn(doms)[j]]
  <1>1. DOMAIN BatchesIn(doms) = KeysIn(doms)
    BY DEF BatchesIn
  <1>2. \A j \in KeysIn(doms) : BatchesIn(doms)[j] = Batch(doms[j[1]], j[2])
    BY DEF BatchesIn
  <1>3. KeysIn(new) = KeysIn(doms) \ {<<d, id>>}
    <2>1. ASSUME NEW k \in Key
          PROVE  k \in KeysIn(new) <=> k \in KeysIn(doms) /\ k # <<d, id>>
      <3>1. PICK i \in DomainId, j \in 0 .. U64Max : k = <<i, j>>
        BY DEF Key
      <3>2. CASE i = d
        BY <3>1, <3>2 DEF KeysIn, Elsewhere, KeptBut
      <3>3. CASE i # d
        BY <3>1, <3>3 DEF KeysIn, Elsewhere
      <3>4. QED
        BY <3>2, <3>3
    <2>2. KeysIn(new) \subseteq Key /\ KeysIn(doms) \subseteq Key
      BY DEF KeysIn
    <2>3. QED
      BY <2>1, <2>2
  <1>4. ASSUME NEW k \in KeysIn(new)
        PROVE  Batch(new[k[1]], k[2]) = Batch(doms[k[1]], k[2])
    <2>1. PICK i \in DomainId, j \in 0 .. U64Max : k = <<i, j>>
      BY DEF Key, KeysIn
    <2>2. CASE i = d
      BY <2>1, <2>2 DEF KeysIn, KeptBut
    <2>3. CASE i # d
      BY <2>1, <2>3 DEF KeysIn, Elsewhere
    <2>4. QED
      BY <2>2, <2>3
  <1>5. BatchesIn(new) = [k \in KeysIn(doms) \ {<<d, id>>} |-> Batch(new[k[1]], k[2])]
    BY <1>3 DEF BatchesIn
  <1>6. QED
    BY <1>1, <1>2, <1>3, <1>4, <1>5

(* A new domain without statements, or a removed one, changes nothing. *)
LEMMA BatchesAdded ==
  ASSUME NEW doms, NEW new, NEW d, DOMAIN new = DOMAIN doms \cup {d}, Batches(new[d]) = {},
         d \in DOMAIN doms => Batches(doms[d]) = {},
         \A i \in DOMAIN doms : i # d => new[i] = doms[i]
  PROVE  BatchesIn(new) = BatchesIn(doms)
  <1>1. KeysIn(new) = KeysIn(doms)
    BY DEF KeysIn
  <1>2. \A k \in KeysIn(doms) : new[k[1]] = doms[k[1]]
    BY DEF KeysIn
  <1>3. QED
    BY <1>1, <1>2 DEF BatchesIn
-----------------------------------------------------------------------------
(***************************************************************************)
(* Receipts stay behind: a receipt belongs to a handed out domain id and,  *)
(* while the domain is there, to an aggregation it no longer holds and     *)
(* will never hold again.                                                  *)
(***************************************************************************)
Behind(dom, id) ==
  /\ id >= 1
  /\ id \notin DOMAIN dom.should_publish
  /\ dom.next.id # 0 => id < dom.next.id

ReceiptsBehind ==
  /\ DOMAIN receipts \subseteq Key
  /\ \A d \in DomainId, id \in 0 .. U64Max :
       <<d, id>> \in DOMAIN receipts =>
         d < next_domain_id /\ (d \in DOMAIN domains => Behind(domains[d], id))

(* The receipt of what was published in this block covers it. *)
PublishedCovered ==
  \A i \in DOMAIN published :
    LET agg == published[i].aggregation
        k == <<published[i].domain, agg.id>>
    IN  k \in DOMAIN receipts /\ receipts[k] = StatementsOf(agg)

RInv == IInv /\ ReceiptsBehind /\ PublishedCovered

(* Joining or filling an aggregation, and taking one, keep receipts behind. *)
LEMMA BehindAppend ==
  ASSUME NEW dom, EntryOK(dom), dom.next.id # 0, NEW new, NEW e,
         Joined(dom, new, e) \/ Filled(dom, new, e),
         NEW id \in 0 .. U64Max, Behind(dom, id)
  PROVE  Behind(new, id)
  <1>1. dom.next.id \in 0 .. U64Max
    BY EntryFields DEF EntryOK
  <1>2. id # dom.next.id
    BY <1>1 DEF Behind
  <1>3. QED
    BY <1>1, <1>2 DEF Behind, Joined, Filled

LEMMA BehindTake ==
  ASSUME NEW dom, EntryOK(dom), NEW taken, can_take_aggregation(dom, taken), NEW new,
         IF dom.next.id = taken THEN Emptied(dom, new) ELSE Dequeued(dom, new, taken),
         NEW id \in 0 .. U64Max, id = taken \/ Behind(dom, id)
  PROVE  Behind(new, id) /\ ~ Behind(dom, taken)
  <1>1. EntryTyped(dom) /\ EntryOrdered(dom)
    BY DEF EntryOK
  <1>2. dom.next.id \in 0 .. U64Max
    BY <1>1, EntryFields
  <1>3. CASE dom.next.id = taken
    <2>1. dom.next.id # 0
      BY <1>1, <1>3 DEF can_take_aggregation, EntryOrdered
    <2>2. dom.next.id \notin DOMAIN dom.should_publish
      BY <1>1, <1>2, <2>1 DEF EntryOrdered
    <2>3. QED
      BY <1>2, <1>3, <2>1, <2>2 DEF Behind, Emptied
  <1>4. CASE dom.next.id # taken
    <2>1. taken \in DOMAIN dom.should_publish
      BY <1>4 DEF can_take_aggregation
    <2>2. taken >= 1 /\ (dom.next.id # 0 => taken < dom.next.id)
      BY <1>1, <2>1 DEF EntryOrdered
    <2>3. QED
      BY <1>4, <2>1, <2>2 DEF Behind, Dequeued
  <1>5. QED
    BY <1>3, <1>4

Open(doms) == {d \in DOMAIN doms : doms[d].state = "Ready"}

(* What every step keeps, and how it looks to the clients of the service. *)
Served ==
  /\ ReceiptsBehind'
  /\ PublishedCovered'
  /\ [Service!Next]_(Service!vars)

(* A step that changes neither what waits nor who may submit. *)
LEMMA Unnoticed ==
  ASSUME next_domain_id' = next_domain_id, receipts' = receipts,
         Open(domains') = Open(domains),
         BatchesIn(domains') = BatchesIn(domains)
  PROVE  [Service!Next]_(Service!vars)
  <1>1. Waiting' = Waiting
    BY WaitingIs, WaitingIsPrime
  <1>2. {d \in DOMAIN domains : domains[d].state = "Ready"}' = {d \in DOMAIN domains : domains[d].state = "Ready"}
    BY DEF Open
  <1>3. UNCHANGED Service!vars
    BY <1>1, <1>2 DEF Service!vars
  <1>4. QED
    BY <1>3

(* A step that leaves the receipts and the published list alone, and does  *)
(* not bring an aggregation back.                                          *)
LEMMA StaysBehind ==
  ASSUME RInv, receipts' = receipts, published' = published,
         DOMAIN domains' \subseteq DOMAIN domains,
         next_domain_id' = next_domain_id,
         \A d \in DOMAIN domains', id \in 0 .. U64Max :
           Behind(domains[d], id) => Behind(domains'[d], id)
  PROVE  ReceiptsBehind' /\ PublishedCovered'
  <1>1. ReceiptsBehind'
    BY DEF RInv, ReceiptsBehind
  <1>2. PublishedCovered'
    BY DEF RInv, PublishedCovered
  <1>3. QED
    BY <1>1, <1>2

(* A call that replaces one entry by one with the same queue. *)
LEMMA SameQueueServed ==
  ASSUME RInv, NEW d \in DOMAIN domains, NEW new, set_domain(d, new),
         new.next = domains[d].next, new.should_publish = domains[d].should_publish,
         new.state = "Ready" <=> domains[d].state = "Ready",
         UNCHANGED <<next_domain_id, published, receipts>>
  PROVE  Served
  <1>1. /\ DOMAIN domains' = DOMAIN domains
        /\ domains'[d] = new
        /\ \A i \in DOMAIN domains : i # d => domains'[i] = domains[i]
    BY DEF set_domain
  <1>2. ASSUME NEW doms, DOMAIN doms = DOMAIN domains, doms[d] = new,
               \A i \in DOMAIN domains : i # d => doms[i] = domains[i]
        PROVE  /\ BatchesIn(doms) = BatchesIn(domains)
               /\ Open(doms) = Open(domains)
               /\ \A i \in DOMAIN doms, id \in 0 .. U64Max :
                    Behind(domains[i], id) => Behind(doms[i], id)
    <2>1. \A i \in DOMAIN domains :
            /\ Batches(doms[i]) = Batches(domains[i])
            /\ \A j \in Batches(domains[i]) : Batch(doms[i], j) = Batch(domains[i], j)
      BY <1>2 DEF Batches, Batch
    <2>2. BatchesIn(doms) = BatchesIn(domains)
      BY <1>2, <2>1, BatchesUnchanged
    <2>3. Open(doms) = Open(domains)
      BY <1>2 DEF Open
    <2>4. \A i \in DOMAIN doms, id \in 0 .. U64Max :
            Behind(domains[i], id) => Behind(doms[i], id)
      BY <1>2 DEF Behind
    <2>5. QED
      BY <2>2, <2>3, <2>4
  <1>3. /\ BatchesIn(domains') = BatchesIn(domains)
        /\ Open(domains') = Open(domains)
        /\ \A i \in DOMAIN domains', id \in 0 .. U64Max :
             Behind(domains[i], id) => Behind(domains'[i], id)
    BY <1>1, <1>2
  <1>4. ReceiptsBehind' /\ PublishedCovered'
    BY <1>1, <1>3, StaysBehind
  <1>5. [Service!Next]_(Service!vars)
    BY <1>3, Unnoticed
  <1>6. QED
    BY <1>4, <1>5 DEF Served

LEMMA FeeServed ==
  ASSUME RInv, NEW u \in Users, NEW d \in DOMAIN domains, NEW del \in Deliveries,
         set_total_delivery_fee(u, d, del)
  PROVE  Served
  <1> DEFINE dom == domains[d]
             new == [dom EXCEPT !.delivery.fee = del.fee, !.delivery.owner_tip = del.owner_tip]
  <1>1. EntryTyped(dom)
    BY StoredEntry DEF RInv
  <1>2. set_domain(d, new) /\ UNCHANGED <<next_domain_id, published, receipts>>
    BY DEF set_total_delivery_fee
  <1>3. SameQueue(dom, new)
    <2>1. del \in [fee : Nat, owner_tip : Nat]
      BY InputAssumption
    <2>2. QED
      BY <1>1, <2>1, DeliveryOK
  <1> HIDE DEF new
  <1>4. QED
    BY <1>2, <1>3, SameQueueServed DEF SameQueue

LEMMA AllowServed ==
  ASSUME RInv, NEW u \in Users, NEW d \in DOMAIN domains, NEW s \in SUBSET Accounts,
         allowlist_proof_submitters(u, d, s)
  PROVE  Served
  <1> DEFINE dom == domains[d]
             added == {a \in s : <<d, a>> \notin allowlist}
             count == ticket_count(dom) + Cardinality(added)
             new == update_ticket(dom, count)
  <1>1. EntryOK(dom) /\ EntryTyped(dom)
    BY StoredEntry DEF RInv
  <1>2. set_domain(d, new) /\ UNCHANGED <<next_domain_id, published, receipts>>
    BY DEF allowlist_proof_submitters
  <1>3. added \in SUBSET Accounts
    OBVIOUS
  <1> HIDE DEF added
  <1>4. count \in Nat
    BY <1>1, <1>3, CountTyped
  <1> HIDE DEF count
  <1>5. SameQueue(dom, new)
    BY <1>1, <1>4, TicketOK
  <1> HIDE DEF new
  <1>6. QED
    BY <1>2, <1>5, SameQueueServed DEF SameQueue

LEMMA RemoveServed ==
  ASSUME RInv, NEW u \in Users, NEW d \in DOMAIN domains, NEW s \in SUBSET Accounts,
         remove_proof_submitters(u, d, s)
  PROVE  Served
  <1> DEFINE dom == domains[d]
             removed == {a \in s : <<d, a>> \in allowlist}
             count == ticket_count(dom) - Cardinality(removed)
             allowed == allowlist \ {<<d, a>> : a \in removed}
             ticketed == update_ticket(dom, count)
             new == handle_hold_state(d, ticketed, allowed)
  <1>1. EntryOK(dom) /\ EntryTyped(dom)
    BY StoredEntry DEF RInv
  <1>2. /\ dom.proof_rules = "OnlyAllowlisted"
        /\ dom.ticket_allowlist # None => count >= 0
        /\ set_domain(d, new) /\ UNCHANGED <<next_domain_id, published, receipts>>
    BY DEF remove_proof_submitters
  <1>3. removed \in SUBSET Accounts
    OBVIOUS
  <1>4. dom.ticket_allowlist # None => count \in Nat
    <2> HIDE DEF removed
    <2>1. ticket_count(dom) \in Nat /\ Cardinality(removed) \in Nat
      BY <1>1, <1>3, CountTyped
    <2>2. QED
      BY <1>2, <2>1
  <1> HIDE DEF allowed, removed, count
  <1>5. EntryOK(ticketed) /\ SameTerms(dom, ticketed) /\ SameQueue(dom, ticketed)
    BY <1>1, <1>4, TicketOK
  <1> HIDE DEF ticketed
  <1>6. EntryTyped(ticketed) /\ ticketed.proof_rules = "OnlyAllowlisted"
    BY <1>2, <1>5 DEF EntryOK, SameTerms
  <1>7. /\ new.next = dom.next /\ new.should_publish = dom.should_publish
        /\ ticketed.state = "Ready" => new.state = "Ready"
    BY <1>5, <1>6, HoldQueue DEF SameQueue
  <1>8. ticketed.state # "Ready" => new.state # "Ready"
    BY <1>6, HoldStateComputed
  <1> HIDE DEF new
  <1>9. new.state = "Ready" <=> dom.state = "Ready"
    BY <1>5, <1>7, <1>8 DEF SameQueue
  <1>10. QED
    BY <1>2, <1>7, <1>9, SameQueueServed

(* hold_domain closes the domain. *)
LEMMA HoldServed ==
  ASSUME RInv, NEW u \in Users, NEW d \in DOMAIN domains, hold_domain(u, d)
  PROVE  Served
  <1> DEFINE dom == domains[d]
             new == update_hold_state(d, dom, allowlist)
  <1>1. EntryTyped(dom) /\ d \in DomainId
        /\ ((\E b \in Accounts : <<d, b>> \in allowlist) => dom.proof_rules = "OnlyAllowlisted")
    BY StoredEntry DEF RInv
  <1>2. /\ dom.state = "Ready"
        /\ set_domain(d, new)
        /\ UNCHANGED <<next_domain_id, published, receipts>>
    BY DEF hold_domain
  <1>3. /\ new.next = dom.next /\ new.should_publish = dom.should_publish
        /\ new.state # "Ready"
    BY <1>1, HoldQueue, HoldStateComputed
  <1> HIDE DEF new
  <1>4. /\ DOMAIN domains' = DOMAIN domains
        /\ domains'[d] = new
        /\ \A i \in DOMAIN domains : i # d => domains'[i] = domains[i]
    BY <1>2 DEF set_domain
  <1>5. \A i \in DOMAIN domains :
          domains'[i].next = domains[i].next /\ domains'[i].should_publish = domains[i].should_publish
    BY <1>3, <1>4
  <1>6. BatchesIn(domains') = BatchesIn(domains)
    <2>1. ASSUME NEW doms, DOMAIN doms = DOMAIN domains,
                 \A i \in DOMAIN domains :
                    doms[i].next = domains[i].next /\ doms[i].should_publish = domains[i].should_publish
          PROVE  BatchesIn(doms) = BatchesIn(domains)
      <3>1. \A i \in DOMAIN domains :
              /\ Batches(doms[i]) = Batches(domains[i])
              /\ \A j \in Batches(domains[i]) : Batch(doms[i], j) = Batch(domains[i], j)
        BY <2>1 DEF Batches, Batch
      <3>2. QED
        BY <2>1, <3>1, BatchesUnchanged
    <2>2. QED
      BY <1>4, <1>5, <2>1
  <1>7. ReceiptsBehind' /\ PublishedCovered'
    <2>1. \A i \in DOMAIN domains', id \in 0 .. U64Max :
            Behind(domains[i], id) => Behind(domains'[i], id)
      BY <1>4, <1>5 DEF Behind
    <2>2. QED
      BY <1>2, <1>4, <2>1, StaysBehind
  <1>8. Service!Close(d)
    <2>1. Open(domains') = Open(domains) \ {d} /\ d \in Open(domains)
      BY <1>2, <1>3, <1>4 DEF Open
    <2>2. Waiting' = Waiting
      BY <1>6, WaitingIs, WaitingIsPrime
    <2>3. QED
      BY <1>2, <2>1, <2>2 DEF Service!Close, Open
  <1>9. QED
    BY <1>1, <1>7, <1>8 DEF Served, Service!Next

(* register_domain opens a domain with a fresh id. *)
LEMMA RegisterServed ==
  ASSUME RInv, NEW u \in Users, NEW reg \in Registrations, register_domain(u, reg)
  PROVE  Served
  <1>0. PICK id : id = next_domain_id
    OBVIOUS
  <1> USE <1>0
  <1> DEFINE new == domains'[id]
  <1>1. TypeOK /\ IdsHandedOut /\ ReceiptsBehind
    BY DEF RInv, IInv
  <1>2. /\ id # U32Max
        /\ next_domain_id' = id + 1
        /\ UNCHANGED <<published, receipts>>
        /\ domains' = [i \in DOMAIN domains \cup {id} |-> domains'[i]]
        /\ \A i \in DOMAIN domains : i # id => domains'[i] = domains[i]
    BY DEF register_domain, set_domain
  <1>3. /\ new.state = "Ready"
        /\ new.next = AggregationCreate(1, reg.aggregation_size)
        /\ new.should_publish = <<>>
    BY DEF register_domain, set_domain
  <1>4. new.next.statements = <<>> /\ new.next.id = 1 /\ DOMAIN new.should_publish = {}
    BY <1>3 DEF AggregationCreate
  <1>5. /\ id \in 0 .. U32Max /\ U32Max \in Nat /\ id + 1 \in DomainId
        /\ DOMAIN domains \subseteq DomainId
        /\ id \notin DOMAIN domains
    BY <1>1, <1>2, ConfigAssumption DEF TypeOK, DomainId, IdsHandedOut
  <1>6. DOMAIN domains' = DOMAIN domains \cup {id}
    BY <1>2
  <1>7. Batches(new) = {}
    BY <1>4 DEF Batches
  <1> HIDE DEF new
  <1>8. BatchesIn(domains') = BatchesIn(domains)
    <2>1. ASSUME NEW doms, DOMAIN doms = DOMAIN domains \cup {id}, Batches(doms[id]) = {},
                 \A i \in DOMAIN domains : i # id => doms[i] = domains[i]
          PROVE  BatchesIn(doms) = BatchesIn(domains)
      BY <1>5, <2>1, BatchesAdded
    <2>2. QED
      BY <1>2, <1>6, <1>7, <2>1 DEF new
  <1>9. ReceiptsBehind'
    <2>1. DOMAIN receipts' \subseteq Key
      BY <1>1, <1>2 DEF ReceiptsBehind
    <2>2. ASSUME NEW d \in DomainId, NEW n \in 0 .. U64Max, <<d, n>> \in DOMAIN receipts'
          PROVE  d < next_domain_id' /\ (d \in DOMAIN domains' => Behind(domains'[d], n))
      <3>1. d < id /\ (d \in DOMAIN domains => Behind(domains[d], n))
        BY <1>1, <1>2, <2>2 DEF ReceiptsBehind
      <3>2. d # id /\ d < id + 1
        BY <1>5, <3>1 DEF DomainId
      <3>3. QED
        BY <1>2, <1>6, <3>1, <3>2
    <2>3. QED
      BY <2>1, <2>2 DEF ReceiptsBehind
  <1>10. PublishedCovered'
    BY <1>2 DEF RInv, PublishedCovered
  <1>11. Service!Register(id)
    <2>1. id \notin 0 .. (id - 1) /\ 0 .. (id + 1 - 1) = (0 .. (id - 1)) \cup {id}
      BY <1>5
    <2>2. Open(domains') = Open(domains) \cup {id}
      BY <1>2, <1>3, <1>5, <1>6 DEF Open, new
    <2>3. Waiting' = Waiting
      BY <1>8, WaitingIs, WaitingIsPrime
    <2>4. QED
      BY <1>2, <2>1, <2>2, <2>3 DEF Service!Register, Open
  <1>12. id \in DomainId
    BY <1>5 DEF DomainId
  <1>13. QED
    BY <1>9, <1>10, <1>11, <1>12 DEF Served, Service!Next

(* unregister_domain removes a drained domain: nobody notices. *)
LEMMA UnregisterServed ==
  ASSUME RInv, NEW u \in Users, NEW d \in DOMAIN domains, unregister_domain(u, d)
  PROVE  Served
  <1>1. ExactState(d, domains[d], allowlist)
    BY StoredEntry DEF RInv
  <1>2. /\ domains[d].state = "Removable"
        /\ domains' = [i \in DOMAIN domains \ {d} |-> domains[i]]
        /\ UNCHANGED <<next_domain_id, published, receipts>>
    BY DEF unregister_domain
  <1>3. /\ DOMAIN domains' = DOMAIN domains \ {d}
        /\ \A i \in DOMAIN domains' : domains'[i] = domains[i]
    BY <1>2
  <1>4. Batches(domains[d]) = {}
    BY <1>1, <1>2 DEF ExactState, Batches
  <1>5. BatchesIn(domains') = BatchesIn(domains)
    <2>1. ASSUME NEW doms, DOMAIN doms = DOMAIN domains \ {d},
                 \A i \in DOMAIN doms : doms[i] = domains[i]
          PROVE  BatchesIn(domains) = BatchesIn(doms)
      <3>1. DOMAIN domains = DOMAIN doms \cup {d} /\ d \notin DOMAIN doms
        BY <2>1
      <3>2. \A i \in DOMAIN doms : i # d => domains[i] = doms[i]
        BY <2>1
      <3>3. QED
        BY <1>4, <3>1, <3>2, BatchesAdded
    <2>2. QED
      BY <1>3, <2>1
  <1>6. Open(domains') = Open(domains)
    BY <1>2, <1>3 DEF Open
  <1>7. ReceiptsBehind' /\ PublishedCovered'
    BY <1>2, <1>3, StaysBehind
  <1>8. QED
    BY <1>2, <1>5, <1>6, <1>7, Unnoticed DEF Served

(* on_proof_verified accepts a statement into the latest batch. *)
LEMMA SubmitServed ==
  ASSUME RInv, NEW a \in Accounts, NEW d \in DOMAIN domains, NEW s \in Statements,
         NEW e \in CallFees, on_proof_verified(a, d, s, e)
  PROVE  Served
  <1> DEFINE dom == domains[d]
             entry == [account |-> a, reserve |-> Reserve(dom, e), statement |-> s]
             added == append_statement(dom, entry)
             new == handle_hold_state(d, added, allowlist)
             id == dom.next.id
             old == IF id \in Batches(dom) THEN Batch(dom, id) ELSE <<>>
  <1>1. /\ EntryOK(dom) /\ EntryTyped(dom) /\ EntryBounded(dom) /\ EntryOrdered(dom)
        /\ dom.next.size # 0 /\ d \in DomainId
    BY StoredEntry DEF RInv, EntryOK
  <1>2. /\ dom.state = "Ready"
        /\ can_add_statement(dom)
        /\ set_domain(d, new)
        /\ UNCHANGED <<next_domain_id, published, receipts>>
    BY DEF on_proof_verified
  <1>3. entry \in StatementEntry /\ entry.statement = s
    BY <1>1, ReserveTyped DEF StatementEntry
  <1> HIDE DEF entry
  <1>4. EntryOK(added) /\ (Joined(dom, added, entry) \/ Filled(dom, added, entry))
    BY <1>1, <1>2, <1>3, AppendOK, AppendQueue
  <1> HIDE DEF added
  <1>5. new.next = added.next /\ new.should_publish = added.should_publish
    BY <1>4, HoldQueue, SMTT(30) DEF EntryOK
  <1> HIDE DEF new
  <1>6. Joined(dom, new, entry) \/ Filled(dom, new, entry)
    BY <1>4, <1>5 DEF Joined, Filled
  <1>7. id # 0 /\ id \in 0 .. U64Max
    BY <1>1, <1>2, EntryFields DEF EntryOrdered
  <1>8. /\ Batches(new) = Batches(dom) \cup {id}
        /\ Batch(new, id) = Append(old, s)
        /\ \A i \in Batches(dom) \ {id} : Batch(new, i) = Batch(dom, i)
    BY <1>1, <1>3, <1>6, <1>7, AppendBatches
  <1>9. /\ DOMAIN domains' = DOMAIN domains
        /\ domains'[d] = new
        /\ \A i \in DOMAIN domains : i # d => domains'[i] = domains[i]
    BY <1>2 DEF set_domain
  <1>10. BatchesIn(domains') =
           [j \in DOMAIN BatchesIn(domains) \cup {<<d, id>>} |->
              IF j = <<d, id>> THEN Append(old, s) ELSE BatchesIn(domains)[j]]
    <2> DEFINE more == Append(old, s)
    <2>1. ASSUME NEW doms, Elsewhere(domains, doms, d), doms[d] = new
          PROVE  BatchesIn(doms) =
                   [j \in DOMAIN BatchesIn(domains) \cup {<<d, id>>} |->
                      IF j = <<d, id>> THEN more ELSE BatchesIn(domains)[j]]
      <3>1. /\ Batches(doms[d]) = Batches(domains[d]) \cup {id}
            /\ Batch(doms[d], id) = more
            /\ \A i \in Batches(domains[d]) \ {id} : Batch(doms[d], i) = Batch(domains[d], i)
        BY <1>8, <2>1
      <3> HIDE DEF more, id
      <3>2. QED
        BY <1>1, <1>7, <2>1, <3>1, BatchGrows
    <2>2. Elsewhere(domains, domains', d)
      BY <1>9 DEF Elsewhere
    <2>3. QED
      BY <1>9, <2>1, <2>2
  <1>11. ReceiptsBehind' /\ PublishedCovered'
    <2>1. ASSUME NEW i \in DOMAIN domains, NEW n \in 0 .. U64Max, Behind(domains[i], n)
          PROVE  Behind(domains'[i], n)
      <3>1. CASE i = d
        <4>1. Behind(new, n)
          BY <1>1, <1>6, <1>7, <2>1, <3>1, BehindAppend
        <4>2. QED
          BY <1>9, <3>1, <4>1
      <3>2. CASE i # d
        BY <1>9, <2>1, <3>2
      <3>3. QED
        BY <3>1, <3>2
    <2>2. QED
      BY <1>2, <1>9, <2>1, StaysBehind
  <1>12. Service!Accept(d, id, s)
    <2> DEFINE k == <<d, id>>
    <2>1. d \in Open(domains)
      BY <1>2 DEF Open
    <2>2. Open(domains') = Open(domains) \/ Open(domains') = Open(domains) \ {d}
      <3>1. CASE new.state = "Ready"
        BY <1>2, <1>9, <3>1 DEF Open
      <3>2. CASE new.state # "Ready"
        BY <1>9, <3>2 DEF Open
      <3>3. QED
        BY <3>1, <3>2
    <2>3. k \notin DOMAIN receipts
      <3>1. ~ Behind(dom, id)
        BY <1>7 DEF Behind
      <3>2. QED
        BY <1>1, <1>7, <3>1 DEF RInv, ReceiptsBehind
    <2>4. DOMAIN Waiting = KeysIn(domains)
      BY WaitingIs DEF BatchesIn
    <2>5. ASSUME NEW j \in DOMAIN Waiting \cup DOMAIN receipts, j[1] = d
          PROVE  j[2] <= id
      <3>1. j \in Key
        BY <2>4 DEF RInv, ReceiptsBehind, KeysIn
      <3>2. PICK n \in 0 .. U64Max : j = <<d, n>>
        BY <2>5, <3>1 DEF Key
      <3>3. CASE j \in DOMAIN receipts
        <4>1. Behind(dom, n)
          BY <1>1, <3>2, <3>3 DEF RInv, ReceiptsBehind
        <4>2. QED
          BY <1>7, <3>2, <4>1 DEF Behind
      <3>4. CASE j \in DOMAIN Waiting
        <4>1. n \in DOMAIN dom.should_publish \/ n = id
          BY <2>4, <3>2, <3>4 DEF KeysIn, Batches
        <4>2. QED
          BY <1>1, <1>7, <3>2, <4>1 DEF EntryOrdered
      <3>5. QED
        BY <3>3, <3>4
    <2>6. (IF k \in DOMAIN Waiting THEN Waiting[k] ELSE <<>>) = old
      <3>1. k \in KeysIn(domains) <=> id \in Batches(dom)
        BY <1>1, <1>7 DEF KeysIn, Key
      <3>2. k \in KeysIn(domains) => Waiting[k] = Batch(dom, id)
        BY WaitingIs DEF BatchesIn
      <3>3. QED
        BY <2>4, <3>1, <3>2
    <2>7. Len(old) < AggregationSize
      <3>1. id \notin DOMAIN dom.should_publish
        BY <1>1, <1>7 DEF EntryOrdered
      <3>2. /\ dom.next.statements \in Seq(StatementEntry)
            /\ Len(dom.next.statements) \in Nat /\ dom.next.size \in Nat
            /\ Len(dom.next.statements) < dom.next.size /\ dom.next.size <= AggregationSize
            /\ AggregationSize \in Nat
        BY <1>1, EntryFields, ConfigAssumption DEF EntryBounded
      <3>3. Len(StatementsOf(dom.next)) = Len(dom.next.statements)
        BY <3>2 DEF StatementsOf
      <3>4. CASE id \in Batches(dom)
        <4>1. old = StatementsOf(dom.next)
          BY <3>1, <3>4 DEF Batch
        <4> HIDE DEF old
        <4>2. QED
          BY <3>2, <3>3, <4>1
      <3>5. CASE id \notin Batches(dom)
        <4>1. old = <<>>
          BY <3>5
        <4> HIDE DEF old
        <4>2. QED
          BY <3>2, <4>1
      <3>6. QED
        BY <3>4, <3>5
    <2> HIDE DEF old
    <2>8. Waiting' = [j \in DOMAIN Waiting \cup {k} |-> IF j = k THEN Append(old, s) ELSE Waiting[j]]
      BY <1>10, WaitingIs, WaitingIsPrime
    <2>9. QED
      BY <1>2, <2>1, <2>2, <2>3, <2>5, <2>6, <2>7, <2>8
         DEF Service!Accept, Service!MayClose, Open
  <1>13. QED
    BY <1>1, <1>7, <1>11, <1>12 DEF Served, Service!Next

(* The id under which an aggregation is taken is its own. *)
LEMMA TakenId ==
  ASSUME NEW dom, EntryOK(dom), NEW id, can_take_aggregation(dom, id)
  PROVE  taken_aggregation(dom, id).id = id
  BY DEF EntryOK, EntryOrdered, can_take_aggregation, taken_aggregation

(* aggregate publishes one batch, and the receipt covers it. *)
LEMMA AggregateServed ==
  ASSUME RInv, NEW u \in Users, NEW d \in DOMAIN domains, NEW id,
         aggregate(u, d, id)
  PROVE  Served
  <1> DEFINE dom == domains[d]
             taken == take_aggregation(dom, id)
             new == handle_hold_state(d, taken, allowlist)
             agg == taken_aggregation(dom, id)
             k == <<d, id>>
  <1>1. EntryOK(dom) /\ EntryTyped(dom) /\ d \in DomainId /\ d < next_domain_id
    BY StoredEntry DEF RInv, IInv, IdsHandedOut
  <1>2. /\ can_take_aggregation(dom, id)
        /\ set_domain(d, new)
        /\ published' = Append(published, [domain |-> d, aggregation |-> agg])
        /\ receipts' = [j \in DOMAIN receipts \cup {k} |->
                          IF j = k THEN StatementsOf(agg) ELSE receipts[j]]
        /\ next_domain_id' = next_domain_id
    BY DEF aggregate
  <1>3. /\ EntryOK(taken)
        /\ IF dom.next.id = id THEN Emptied(dom, taken) ELSE Dequeued(dom, taken, id)
        /\ agg \in AggregationEntry /\ agg.id = id
    BY <1>1, <1>2, TakeOK, TakeQueue, TakenId
  <1> HIDE DEF taken
  <1>4. new.next = taken.next /\ new.should_publish = taken.should_publish
    BY <1>3, HoldQueue DEF EntryOK
  <1> HIDE DEF new
  <1>5. IF dom.next.id = id THEN Emptied(dom, new) ELSE Dequeued(dom, new, id)
    BY <1>3, <1>4 DEF Emptied, Dequeued
  <1>6. /\ id \in Batches(dom)
        /\ Batch(dom, id) = StatementsOf(agg)
        /\ Batches(new) = Batches(dom) \ {id}
        /\ \A i \in Batches(dom) \ {id} : Batch(new, i) = Batch(dom, i)
    BY <1>1, <1>2, <1>5, TakeBatches
  <1>7. id \in 0 .. U64Max
    BY <1>6 DEF Batches
  <1>8. /\ DOMAIN domains' = DOMAIN domains
        /\ domains'[d] = new
        /\ \A i \in DOMAIN domains : i # d => domains'[i] = domains[i]
    BY <1>2 DEF set_domain
  <1> HIDE DEF agg
  <1>9. BatchesIn(domains') = [j \in DOMAIN BatchesIn(domains) \ {k} |-> BatchesIn(domains)[j]]
    <2>1. ASSUME NEW doms, Elsewhere(domains, doms, d), doms[d] = new
          PROVE  BatchesIn(doms) = [j \in DOMAIN BatchesIn(domains) \ {k} |-> BatchesIn(domains)[j]]
      <3>1. KeptBut(domains[d], doms[d], id)
        BY <1>6, <2>1 DEF KeptBut
      <3>2. Elsewhere(domains, doms, d) /\ d \in DomainId /\ id \in 0 .. U64Max
        BY <1>1, <1>7, <2>1
      <3>3. QED
        BY <3>1, <3>2, BatchLeaves
    <2>2. Elsewhere(domains, domains', d)
      BY <1>8 DEF Elsewhere
    <2>3. QED
      BY <1>8, <2>1, <2>2
  <1>10. k \notin DOMAIN receipts
    <2>1. ~ Behind(dom, id)
      BY <1>1, <1>2, <1>5, <1>7, BehindTake
    <2>2. QED
      BY <1>1, <1>7, <2>1 DEF RInv, ReceiptsBehind
  <1>11. ReceiptsBehind'
    <2>1. k \in Key /\ DOMAIN receipts \subseteq Key /\ DOMAIN receipts' = DOMAIN receipts \cup {k}
      BY <1>1, <1>2, <1>7 DEF RInv, ReceiptsBehind, Key
    <2>2. ASSUME NEW i \in DomainId, NEW n \in 0 .. U64Max, <<i, n>> \in DOMAIN receipts \cup {k}
          PROVE  i < next_domain_id /\ (i \in DOMAIN domains => Behind(domains'[i], n))
      <3>1. CASE i = d
        <4>1. n = id \/ Behind(dom, n)
          BY <2>2, <3>1 DEF RInv, ReceiptsBehind
        <4>2. Behind(new, n)
          BY <1>1, <1>2, <1>5, <4>1, BehindTake
        <4>3. QED
          BY <1>1, <1>8, <3>1, <4>2
      <3>2. CASE i # d
        BY <1>8, <2>2, <3>2 DEF RInv, ReceiptsBehind
      <3>3. QED
        BY <3>1, <3>2
    <2>3. QED
      BY <1>2, <1>8, <2>1, <2>2 DEF ReceiptsBehind
  <1>12. PublishedCovered'
    <2> DEFINE p == [domain |-> d, aggregation |-> agg]
    <2>1. published \in Seq(PublishedEntry) /\ p \in PublishedEntry
      BY <1>1, <1>3 DEF RInv, IInv, TypeOK, PublishedEntry
    <2>2. ASSUME NEW i \in DOMAIN Append(published, p)
          PROVE  LET q == Append(published, p)[i]
                     j == <<q.domain, q.aggregation.id>>
                 IN  j \in DOMAIN receipts' /\ receipts'[j] = StatementsOf(q.aggregation)
      <3>1. CASE i = Len(published) + 1
        <4>1. Append(published, p)[i] = p
          BY <2>1, <3>1
        <4>2. p.domain = d /\ p.aggregation = agg
          OBVIOUS
        <4> HIDE DEF p
        <4>3. QED
          BY <1>2, <1>3, <4>1, <4>2
      <3>2. CASE i # Len(published) + 1
        <4>1. i \in DOMAIN published /\ Append(published, p)[i] = published[i]
          <5> HIDE DEF p
          <5>1. QED
            BY <2>1, <3>2
        <4> DEFINE q == published[i]
                   j == <<q.domain, q.aggregation.id>>
        <4>2. j \in DOMAIN receipts /\ receipts[j] = StatementsOf(q.aggregation)
          BY <4>1 DEF RInv, PublishedCovered
        <4>3. j # k
          BY <1>10, <4>2
        <4> HIDE DEF p, j, q
        <4>4. j \in DOMAIN receipts' /\ receipts'[j] = StatementsOf(q.aggregation)
          BY <1>2, <4>2, <4>3
        <4>5. QED
          BY <4>1, <4>4 DEF j, q
      <3>3. QED
        BY <3>1, <3>2
    <2> HIDE DEF p
    <2>3. published' = Append(published, p)
      BY <1>2 DEF p
    <2>4. QED
      BY <2>2, <2>3 DEF PublishedCovered
  <1>13. dom.state # "Ready" => new.state # "Ready"
    <2>1. /\ SameTerms(dom, taken)
          /\ dom.state # "Ready" => taken.state # "Ready"
      BY <1>1, TakeTerms DEF taken
    <2>2. (\E b \in Accounts : <<d, b>> \in allowlist) => dom.proof_rules = "OnlyAllowlisted"
      BY StoredEntry DEF RInv
    <2>3. taken.state # "Ready" => new.state # "Ready"
      BY <1>3, <2>1, <2>2, HoldStateComputed DEF new, EntryOK, SameTerms
    <2>4. QED
      BY <2>1, <2>3
  <1>14. Service!Publish(d, id)
    <2>1. k \in KeysIn(domains)
      BY <1>1, <1>6, <1>7 DEF KeysIn, Key
    <2>2. k \in DOMAIN Waiting /\ Waiting[k] = StatementsOf(agg)
      BY <1>6, <2>1, WaitingIs DEF BatchesIn
    <2>3. Waiting' = [j \in DOMAIN Waiting \ {k} |-> Waiting[j]]
      BY <1>9, WaitingIs, WaitingIsPrime
    <2>4. receipts' = [j \in DOMAIN receipts \cup {k} |-> IF j = k THEN Waiting[k] ELSE receipts[j]]
      BY <1>2, <2>2
    <2>5. Open(domains') = Open(domains) \/ Open(domains') = Open(domains) \ {d}
      <3>1. CASE new.state = "Ready"
        BY <1>8, <1>13, <3>1 DEF Open
      <3>2. CASE new.state # "Ready"
        BY <1>8, <3>2 DEF Open
      <3>3. QED
        BY <3>1, <3>2
    <2>6. QED
      BY <1>2, <2>2, <2>3, <2>4, <2>5 DEF Service!Publish, Service!MayClose, Open
  <1>15. QED
    BY <1>1, <1>7, <1>11, <1>12, <1>14 DEF Served, Service!Next

LEMMA StepServed == RInv /\ [Next]_vars => Served
  <1> SUFFICES ASSUME RInv, [Next]_vars PROVE Served
    OBVIOUS
  <1>1. CASE \E u \in Users, reg \in Registrations : register_domain(u, reg)
    BY <1>1, RegisterServed
  <1>2. ASSUME NEW d \in DOMAIN domains,
               \/ \E a \in Accounts, s \in Statements, e \in CallFees :
                    on_proof_verified(a, d, s, e)
               \/ \E u \in Users : \E id \in PendingIds(domains[d]) : aggregate(u, d, id)
               \/ \E u \in Users : hold_domain(u, d)
               \/ \E u \in Users : unregister_domain(u, d)
               \/ \E u \in Users, del \in Deliveries : set_total_delivery_fee(u, d, del)
               \/ \E u \in Users, s \in SUBSET Accounts : allowlist_proof_submitters(u, d, s)
               \/ \E u \in Users, s \in SUBSET Accounts : remove_proof_submitters(u, d, s)
        PROVE  Served
    BY <1>2, SubmitServed, AggregateServed, HoldServed, UnregisterServed, FeeServed,
       AllowServed, RemoveServed
  <1>3. CASE on_initialize
    <2>1. /\ UNCHANGED <<next_domain_id, domains, receipts>>
          /\ published' = <<>>
      BY <1>3 DEF on_initialize
    <2>2. ReceiptsBehind'
      BY <2>1 DEF RInv, ReceiptsBehind
    <2>3. PublishedCovered'
      BY <2>1 DEF PublishedCovered
    <2>4. QED
      BY <2>1, <2>2, <2>3, Unnoticed DEF Served
  <1>4. ASSUME UNCHANGED <<next_domain_id, domains, receipts, published>>
        PROVE  Served
    <2>1. ReceiptsBehind' /\ PublishedCovered'
      BY <1>4 DEF RInv, ReceiptsBehind, PublishedCovered
    <2>2. QED
      BY <1>4, <2>1, Unnoticed DEF Served
  <1>5. CASE \E a \in Accounts, n \in FreezeAmounts : set_freeze(a, n)
    BY <1>4, <1>5 DEF set_freeze
  <1>6. CASE UNCHANGED vars
    BY <1>4, <1>6 DEF vars
  <1>7. QED
    BY <1>1, <1>2, <1>3, <1>5, <1>6 DEF Next

LEMMA InitServed == Init => RInv /\ Service!Init
  <1> SUFFICES ASSUME Init PROVE RInv /\ Service!Init
    OBVIOUS
  <1>1. /\ next_domain_id = 0
        /\ domains = <<>> /\ DOMAIN domains = {}
        /\ published = <<>> /\ DOMAIN published = {}
        /\ receipts = <<>> /\ DOMAIN receipts = {}
    BY DEF Init
  <1>2. RInv
    BY <1>1, InitInv DEF RInv, ReceiptsBehind, PublishedCovered
  <1>3. Waiting = <<>>
    <2>1. WaitingKeys = {}
      BY <1>1 DEF WaitingKeys
    <2>2. QED
      BY <2>1 DEF Waiting
  <1>4. Service!Init
    BY <1>1, <1>3 DEF Service!Init
  <1>5. QED
    BY <1>2, <1>4

LEMMA ReceiptInvariance == Spec => []RInv
  <1>1. RInv /\ [Next]_vars => RInv'
    BY StepInv, StepServed DEF RInv, Served
  <1>2. QED
    BY <1>1, InitServed, PTL DEF Spec

(***************************************************************************)
(* The pallet implements the service it promises: in every interleaving of *)
(* its calls, an accepted statement waits in exactly one batch until one   *)
(* receipt covers it, in order, and a receipt never changes.               *)
(***************************************************************************)
THEOREM PalletImplementsService == Spec => ImplementsService
  <1>1. RInv /\ [Next]_vars => [Service!Next]_(Service!vars)
    BY StepServed DEF Served
  <1>2. Init => Service!Init
    BY InitServed
  <1>3. QED
    BY <1>1, <1>2, ReceiptInvariance, PTL DEF Spec, ImplementsService, Service!Spec

(***************************************************************************)
(* While a block lasts, get_statement_path finds every statement under a   *)
(* receipt of that block, whatever else was published in it.               *)
(***************************************************************************)
THEOREM PathsAlwaysServed == Spec => []PathsServed
  <1>1. ASSUME RInv PROVE PathsServed
    <2> SUFFICES ASSUME NEW i \in DOMAIN published
                 PROVE  LET d == published[i].domain
                            id == published[i].aggregation.id
                        IN  /\ <<d, id>> \in DOMAIN receipts
                            /\ \A j \in DOMAIN receipts[<<d, id>>] :
                                 LET s == receipts[<<d, id>>][j]
                                     leaf == get_statement_path(d, id, s)
                                 IN  /\ leaf \in DOMAIN receipts[<<d, id>>]
                                     /\ receipts[<<d, id>>][leaf] = s
      BY DEF PathsServed
    <2> DEFINE d == published[i].domain
               id == published[i].aggregation.id
               k == <<d, id>>
               P == {n \in 1 .. Len(published) :
                       published[n].domain = d /\ published[n].aggregation.id = id}
               p == first_published(d, id)
    <2>1. published \in Seq(PublishedEntry) /\ DOMAIN published = 1 .. Len(published)
      BY <1>1 DEF RInv, IInv, TypeOK, PublishedEntry
    <2>2. i \in P /\ P \subseteq Nat
      BY <2>1
    <2>3. p = Min(P)
      BY <2>2 DEF first_published, SelectInSeq
    <2>4. p \in P
      BY <2>2, <2>3, LeastExists
    <2>5. /\ p # 0 /\ p \in DOMAIN published
          /\ published[p].domain = d /\ published[p].aggregation.id = id
      BY <2>1, <2>4
    <2> DEFINE agg == published[p].aggregation
    <2>6. k \in DOMAIN receipts /\ receipts[k] = StatementsOf(agg)
      BY <1>1, <2>5 DEF RInv, PublishedCovered
    <2>7. agg \in AggregationEntry
      <3> HIDE DEF p, d, id
      <3>1. published[p] \in PublishedEntry
        BY <2>1, <2>5
      <3>2. QED
        BY <3>1 DEF PublishedEntry
    <2>8. agg.statements \in Seq(StatementEntry) /\ DOMAIN agg.statements = 1 .. Len(agg.statements)
      BY <2>7 DEF AggregationEntry
    <2> HIDE DEF p
    <2>9. ASSUME NEW j \in DOMAIN receipts[k]
          PROVE  LET s == receipts[k][j]
                     leaf == get_statement_path(d, id, s)
                 IN  leaf \in DOMAIN receipts[k] /\ receipts[k][leaf] = s
      <3> DEFINE s == receipts[k][j]
                 L == {n \in 1 .. Len(agg.statements) : agg.statements[n].statement = s}
                 leaf == get_statement_path(d, id, s)
      <3> HIDE DEF d, id
      <3>1. j \in L /\ L \subseteq Nat
        BY <2>6, <2>8 DEF StatementsOf
      <3> HIDE DEF s
      <3>2. leaf = Min(L)
        BY <2>5, <3>1 DEF get_statement_path, SelectInSeq, p
      <3>3. leaf \in L
        BY <3>1, <3>2, LeastExists
      <3> HIDE DEF leaf
      <3>4. leaf \in DOMAIN receipts[k] /\ receipts[k][leaf] = s
        BY <2>6, <2>8, <3>3 DEF StatementsOf
      <3>5. QED
        BY <3>4 DEF leaf, s
    <2>10. QED
      BY <2>6, <2>9
  <1>2. QED
    BY <1>1, ReceiptInvariance, PTL
-----------------------------------------------------------------------------
(***************************************************************************)
(* The money.  First what each operation of Balances does to one free      *)
(* balance and to one hold.                                                *)
(***************************************************************************)
(* The fields of a ledger. *)
LEMMA LedgerParts ==
  ASSUME NEW b \in Ledger, NEW a \in Accounts, NEW r \in HoldReason
  PROVE  /\ b.free \in [Accounts -> Nat] /\ b.frozen \in [Accounts -> Nat]
         /\ b.held \in [Accounts -> [HoldReason -> Nat]]
         /\ b.free[a] \in Nat /\ b.frozen[a] \in Nat /\ b.held[a] \in [HoldReason -> Nat]
         /\ b.held[a][r] \in Nat
  BY DEF Ledger

(* One free balance and one hold change. *)
Updated(b, r, a, f, h) == [b EXCEPT !.free[a] = f, !.held[a][r] = h]

(* What such a change leaves. *)
LEMMA UpdateFacts ==
  ASSUME NEW b \in Ledger, NEW a \in Accounts, NEW r \in HoldReason, NEW f \in Nat, NEW h \in Nat,
         NEW x \in Accounts, NEW q \in HoldReason
  PROVE  LET c == Updated(b, r, a, f, h) IN
         /\ c \in Ledger
         /\ c.frozen[x] = b.frozen[x]
         /\ c.free[x] = IF x = a THEN f ELSE b.free[x]
         /\ c.held[x][q] = IF x = a /\ q = r THEN h ELSE b.held[x][q]
  <1> DEFINE c == Updated(b, r, a, f, h)
  <1>1. /\ b.free \in [Accounts -> Nat] /\ b.frozen \in [Accounts -> Nat]
        /\ b.held \in [Accounts -> [HoldReason -> Nat]]
        /\ b.held[a] \in [HoldReason -> Nat]
    BY LedgerParts
  <1>2. /\ c.free = [b.free EXCEPT ![a] = f]
        /\ c.held = [b.held EXCEPT ![a] = [b.held[a] EXCEPT ![r] = h]]
        /\ c.frozen = b.frozen
    BY DEF Ledger, Updated
  <1> HIDE DEF c
  <1>3. c.held[a] = [b.held[a] EXCEPT ![r] = h] BY <1>1, <1>2
  <1>4. c.held \in [Accounts -> [HoldReason -> Nat]]
    <2>1. [b.held[a] EXCEPT ![r] = h] \in [HoldReason -> Nat] BY <1>1
    <2> QED BY <1>1, <1>2, <2>1
  <1>5. c.free \in [Accounts -> Nat] BY <1>1, <1>2
  <1>6. c \in Ledger
    <2>1. c = [b EXCEPT !.free = c.free, !.held = c.held] BY <1>2 DEF Ledger, Updated, c
    <2> QED BY <1>1, <1>4, <1>5, <2>1 DEF Ledger
  <1>7. c.held[x][q] = IF x = a /\ q = r THEN h ELSE b.held[x][q]
    <2>1. CASE x # a BY <1>1, <1>2, <2>1
    <2>2. CASE x = a BY <1>1, <1>3, <2>2
    <2> QED BY <2>1, <2>2
  <1>8. c.free[x] = IF x = a THEN f ELSE b.free[x] BY <1>1, <1>2
  <1> QED BY <1>2, <1>6, <1>7, <1>8 DEF c

(* hold moves n from the free balance of a to its holds. *)
LEMMA HoldFacts ==
  ASSUME NEW b \in Ledger, NEW a \in Accounts, NEW r \in HoldReason, NEW n \in Nat,
         CanHold(b, a, n), NEW x \in Accounts, NEW q \in HoldReason
  PROVE  LET c == Hold(b, r, a, n) IN
         /\ c \in Ledger
         /\ c.frozen[x] = b.frozen[x]
         /\ c.free[x] = IF x = a THEN b.free[a] - n ELSE b.free[x]
         /\ c.held[x][q] = IF x = a /\ q = r THEN b.held[a][r] + n ELSE b.held[x][q]
  <1> DEFINE f == b.free[a] - n
             h == b.held[a][r] + n
  <1>1. b.free[a] \in Nat /\ b.held[a][r] \in Nat BY LedgerParts
  <1>2. f \in Nat /\ h \in Nat BY <1>1, LedgerAssumption DEF CanHold, Excess
  <1>3. Hold(b, r, a, n) = Updated(b, r, a, f, h) BY DEF Hold, Updated
  <1> DEFINE c == Updated(b, r, a, f, h)
  <1> HIDE DEF f, h
  <1>5. c \in Ledger BY <1>2, UpdateFacts
  <1>6. c.frozen[x] = b.frozen[x] BY <1>2, UpdateFacts
  <1>7. c.free[x] = IF x = a THEN f ELSE b.free[x] BY <1>2, UpdateFacts
  <1>8. c.held[x][q] = IF x = a /\ q = r THEN h ELSE b.held[x][q] BY <1>2, UpdateFacts
  <1> HIDE DEF c
  <1> QED BY <1>3, <1>5, <1>6, <1>7, <1>8 DEF c, f, h

(* release gives back what is there, up to n. *)
LEMMA ReleaseFacts ==
  ASSUME NEW b \in Ledger, NEW a \in Accounts, NEW r \in HoldReason, NEW n \in Nat,
         NEW x \in Accounts, NEW q \in HoldReason
  PROVE  LET c == Release(b, r, a, n) IN
         /\ c \in Ledger
         /\ c.frozen[x] = b.frozen[x]
         /\ c.free[x] = IF x = a THEN b.free[a] + Least(n, b.held[a][r]) ELSE b.free[x]
         /\ c.held[x][q] = IF x = a /\ q = r THEN Excess(b.held[a][r], n) ELSE b.held[x][q]
  <1> DEFINE m == Least(n, b.held[a][r])
             f == b.free[a] + m
             h == b.held[a][r] - m
  <1>1. b.free[a] \in Nat /\ b.held[a][r] \in Nat BY LedgerParts
  <1>2. m \in Nat /\ h \in Nat /\ h = Excess(b.held[a][r], n) BY <1>1 DEF Least, Excess
  <1>3. f \in Nat /\ h \in Nat BY <1>1, <1>2
  <1>4. Release(b, r, a, n) = Updated(b, r, a, f, h) BY DEF Release, Updated
  <1> DEFINE c == Updated(b, r, a, f, h)
  <1> HIDE DEF f, h, m
  <1>5. c \in Ledger BY <1>3, UpdateFacts
  <1>6. c.frozen[x] = b.frozen[x] BY <1>3, UpdateFacts
  <1>7. c.free[x] = IF x = a THEN f ELSE b.free[x] BY <1>3, UpdateFacts
  <1>8. c.held[x][q] = IF x = a /\ q = r THEN h ELSE b.held[x][q] BY <1>3, UpdateFacts
  <1> HIDE DEF c
  <1> QED BY <1>2, <1>4, <1>5, <1>6, <1>7, <1>8 DEF c, f, m
(* Only one free balance changes. *)
LEMMA CreditFacts ==
  ASSUME NEW b \in Ledger, NEW a \in Accounts, NEW f \in Nat, NEW x \in Accounts
  PROVE  LET c == [b EXCEPT !.free[a] = f]
         IN  /\ c \in Ledger
             /\ c.frozen = b.frozen /\ c.held = b.held
             /\ c.free[x] = IF x = a THEN f ELSE b.free[x]
  <1> DEFINE g == [b.free EXCEPT ![a] = f]
  <1>1. g \in [Accounts -> Nat] /\ g[x] = IF x = a THEN f ELSE b.free[x] BY DEF Ledger
  <1>2. [b EXCEPT !.free[a] = f] = [b EXCEPT !.free = g] BY DEF Ledger
  <1> HIDE DEF g
  <1> QED BY <1>1, <1>2 DEF Ledger

(* transfer_on_hold moves what may be moved of n to dest. *)
LEMMA TransferFacts ==
  ASSUME NEW b \in Ledger, NEW a \in Accounts, NEW r \in HoldReason, NEW n \in Nat,
         NEW dest \in Accounts, NEW x \in Accounts, NEW q \in HoldReason
  PROVE  LET c == TransferOnHold(b, r, a, dest, n)
             m == TransferableOnHold(b, r, a, n)
         IN  /\ c \in Ledger
             /\ m \in Nat /\ m <= n /\ m <= b.held[a][r]
             /\ b.frozen[a] <= b.free[a] => m = Least(n, b.held[a][r])
             /\ c.frozen[x] = b.frozen[x]
             /\ c.free[x] >= b.free[x]
             /\ c.held[x][q] = IF x = a /\ q = r THEN b.held[a][r] - m ELSE b.held[x][q]
  <1> DEFINE m == TransferableOnHold(b, r, a, n)
             h == b.held[a][r] - m
             f == b.free[a]
             d == Updated(b, r, a, f, h)
             g == d.free[dest] + m
             c == [d EXCEPT !.free[dest] = g]
  <1>1. b.free[a] \in Nat /\ b.frozen[a] \in Nat /\ b.held[a][r] \in Nat BY LedgerParts
  <1>2. /\ b.held[a]["Aggregation"] \in Nat /\ b.held[a]["Domain"] \in Nat
        /\ b.held[a]["Delivery"] \in Nat /\ b.held[a]["Allowlist"] \in Nat
        /\ b.held[a]["VkRegistration"] \in Nat
    BY LedgerParts DEF HoldReason
  <1>3. Reserved(b, a) \in Nat /\ b.held[a][r] <= Reserved(b, a)
    BY <1>1, <1>2 DEF Reserved, HoldReason
  <1>4. /\ m \in Nat /\ m <= n /\ m <= b.held[a][r]
        /\ b.frozen[a] <= b.free[a] => m = Least(n, b.held[a][r])
    BY <1>1, <1>3 DEF TransferableOnHold, Least, Excess
  <1>5. h \in Nat /\ f \in Nat BY <1>1, <1>4
  <1>6. TransferOnHold(b, r, a, dest, n) = [d EXCEPT !.free[dest] = @ + m]
    <2>1. [b EXCEPT !.held[a][r] = @ - m] = d BY DEF Updated, Ledger
    <2> QED BY <2>1 DEF TransferOnHold
  <1> HIDE DEF m, h, f
  <1>7. d \in Ledger BY <1>5, UpdateFacts
  <1>8. d.frozen[x] = b.frozen[x] BY <1>5, UpdateFacts
  <1>9. d.free[x] = b.free[x]
    <2>1. d.free[x] = IF x = a THEN f ELSE b.free[x] BY <1>5, UpdateFacts
    <2> QED BY <2>1 DEF f
  <1>10. d.held[x][q] = IF x = a /\ q = r THEN h ELSE b.held[x][q] BY <1>5, UpdateFacts
  <1> HIDE DEF d
  <1>11. d.free[dest] \in Nat /\ d.free[x] \in Nat BY <1>7, LedgerParts
  <1>12. g \in Nat BY <1>4, <1>11
  <1>13. g >= d.free[dest] BY <1>4, <1>11
  <1>14. TransferOnHold(b, r, a, dest, n) = c BY <1>6
  <1> HIDE DEF g
  <1>15. c \in Ledger BY <1>7, <1>12, CreditFacts
  <1>16. c.frozen = d.frozen /\ c.held = d.held BY <1>7, <1>12, CreditFacts
  <1>17. c.free[x] = IF x = dest THEN g ELSE d.free[x] BY <1>7, <1>12, CreditFacts, ZenonT(40)
  <1> HIDE DEF c
  <1>18. c.free[x] >= b.free[x] BY <1>9, <1>11, <1>13, <1>17
  <1> QED BY <1>4, <1>8, <1>10, <1>14, <1>15, <1>16, <1>18 DEF h, m

(* c is b after holds worth up to n[x][q] have been settled. *)
Settled(b, c, x, q, n) ==
  /\ c.frozen[x] = b.frozen[x]
  /\ c.free[x] >= b.free[x]
  /\ c.held[x][q] <= b.held[x][q]
  /\ c.held[x][q] + n >= b.held[x][q]
  /\ b.frozen[x] <= b.free[x] => c.held[x][q] = Excess(b.held[x][q], n)

LEMMA SettledTwice ==
  ASSUME NEW b \in Ledger, NEW c \in Ledger, NEW d \in Ledger,
         NEW x \in Accounts, NEW q \in HoldReason, NEW m \in Nat, NEW n \in Nat,
         Settled(b, c, x, q, m), Settled(c, d, x, q, n)
  PROVE  Settled(b, d, x, q, m + n)
  <1>1. b.free[x] \in Nat /\ b.frozen[x] \in Nat /\ b.held[x][q] \in Nat BY LedgerParts
  <1>2. c.free[x] \in Nat /\ c.frozen[x] \in Nat /\ c.held[x][q] \in Nat BY LedgerParts
  <1>3. d.free[x] \in Nat /\ d.frozen[x] \in Nat /\ d.held[x][q] \in Nat BY LedgerParts
  <1> QED BY <1>1, <1>2, <1>3 DEF Settled, Excess

(* handle_held_funds, whether it pays, pays in part or gives back. *)
LEMMA HandleFacts ==
  ASSUME NEW b \in Ledger, NEW r \in HoldReason, NEW a \in Accounts, NEW dest, NEW n \in Nat,
         NEW x \in Accounts, NEW q \in HoldReason
  PROVE  LET c == handle_held_funds(b, r, a, dest, n)
         IN  /\ c \in Ledger
             /\ Settled(b, c, x, q, IF x = a /\ q = r THEN n ELSE 0)
  <1> DEFINE c == handle_held_funds(b, r, a, dest, n)
  <1>1. /\ b.free[a] \in Nat /\ b.held[a][r] \in Nat
        /\ b.free[x] \in Nat /\ b.held[x][q] \in Nat /\ b.frozen[x] \in Nat
    BY LedgerParts
  <1>2. CASE dest \in Accounts /\ CanTransferOnHold(b, r, a, dest, n)
    <2> DEFINE m == TransferableOnHold(b, r, a, n)
               t == TransferOnHold(b, r, a, dest, n)
    <2>1. t \in Ledger BY <1>2, TransferFacts
    <2>2. /\ m \in Nat /\ m <= n /\ m <= b.held[a][r]
          /\ b.frozen[a] <= b.free[a] => m = Least(n, b.held[a][r])
      BY <1>2, TransferFacts
    <2>3. t.frozen[x] = b.frozen[x] /\ t.free[x] >= b.free[x] BY <1>2, TransferFacts
    <2>4. t.held[x][q] = IF x = a /\ q = r THEN b.held[a][r] - m ELSE b.held[x][q]
      BY <1>2, TransferFacts
    <2>5. c = t BY <1>2 DEF handle_held_funds
    <2> HIDE DEF m, t, c
    <2>6. CASE x = a /\ q = r
      BY <1>1, <2>1, <2>2, <2>3, <2>4, <2>5, <2>6 DEF Settled, Excess, Least, c
    <2>7. CASE ~ (x = a /\ q = r)
      BY <1>1, <2>1, <2>3, <2>4, <2>5, <2>7 DEF Settled, Excess, c
    <2> QED BY <2>6, <2>7
  <1>3. CASE ~ (dest \in Accounts /\ CanTransferOnHold(b, r, a, dest, n))
    <2> DEFINE t == Release(b, r, a, n)
    <2>1. t \in Ledger BY ReleaseFacts
    <2>2. t.frozen[x] = b.frozen[x] BY ReleaseFacts
    <2>3. t.free[x] = IF x = a THEN b.free[a] + Least(n, b.held[a][r]) ELSE b.free[x]
      BY ReleaseFacts
    <2>4. t.held[x][q] = IF x = a /\ q = r THEN Excess(b.held[a][r], n) ELSE b.held[x][q]
      BY ReleaseFacts
    <2>5. c = t BY <1>3 DEF handle_held_funds
    <2> HIDE DEF t, c
    <2>6. t.free[x] >= b.free[x] BY <1>1, <2>3 DEF Least
    <2>7. CASE x = a /\ q = r
      BY <1>1, <2>1, <2>2, <2>4, <2>5, <2>6, <2>7 DEF Settled, Excess, c
    <2>8. CASE ~ (x = a /\ q = r)
      BY <1>1, <2>1, <2>2, <2>4, <2>5, <2>6, <2>8 DEF Settled, Excess, c
    <2> QED BY <2>7, <2>8
  <1> QED BY <1>2, <1>3

(* What a statement has put on hold for a reason on an account. *)
Part(s, x, q) ==
  IF s.account = x
  THEN CASE q = "Aggregation" -> s.reserve.aggregate
         [] q = "Delivery" -> s.reserve.delivery
         [] OTHER -> 0
  ELSE 0

LEMMA PartNat ==
  ASSUME NEW s \in StatementEntry, NEW x, NEW q
  PROVE  Part(s, x, q) \in Nat
  BY DEF Part, StatementEntry

LEMMA StatementFacts ==
  ASSUME NEW b \in Ledger, NEW s \in StatementEntry, NEW u, NEW o,
         NEW x \in Accounts, NEW q \in HoldReason
  PROVE  LET c == settle_statement(b, u, o, s)
         IN  c \in Ledger /\ Settled(b, c, x, q, Part(s, x, q))
  <1> DEFINE n1 == s.reserve.aggregate
             n2 == s.reserve.delivery
             a == s.account
             d == handle_held_funds(b, "Aggregation", a, u, n1)
             c == handle_held_funds(d, "Delivery", a, o, n2)
             p1 == IF x = a /\ q = "Aggregation" THEN n1 ELSE 0
             p2 == IF x = a /\ q = "Delivery" THEN n2 ELSE 0
  <1>1. n1 \in Nat /\ n2 \in Nat /\ a \in Accounts BY DEF StatementEntry
  <1>2. "Aggregation" \in HoldReason /\ "Delivery" \in HoldReason BY DEF HoldReason
  <1>3. settle_statement(b, u, o, s) = c BY DEF settle_statement
  <1>4. p1 \in Nat /\ p2 \in Nat BY <1>1
  <1>5. Part(s, x, q) = p1 + p2 BY <1>1 DEF Part
  <1> HIDE DEF n1, n2, a
  <1>6. d \in Ledger BY <1>1, <1>2, HandleFacts
  <1>7. Settled(b, d, x, q, p1) BY <1>1, <1>2, HandleFacts
  <1> HIDE DEF d
  <1>8. c \in Ledger BY <1>1, <1>2, <1>6, HandleFacts
  <1>9. Settled(d, c, x, q, p2) BY <1>1, <1>2, <1>6, HandleFacts
  <1> HIDE DEF c, p1, p2
  <1>10. Settled(b, c, x, q, p1 + p2) BY <1>4, <1>6, <1>7, <1>8, <1>9, SettledTwice
  <1> QED BY <1>3, <1>5, <1>8, <1>10
-----------------------------------------------------------------------------
(***************************************************************************)
(* settle works through the statements of an aggregation in their order.   *)
(***************************************************************************)
(* g settles the statements of l with an index in s, for every s \subseteq S, *)
(* starting from b and in the order of the indices.                        *)
IsSettling(g, b, u, o, l, S) ==
  g = [s \in SUBSET S |->
         IF s = {} THEN b ELSE settle_statement(g[s \ {Max(s)}], u, o, l[Max(s)])]

LEMMA SettlingUnfold ==
  ASSUME NEW g, NEW b, NEW u, NEW o, NEW l, NEW S, IsSettling(g, b, u, o, l, S),
         NEW s \in SUBSET S
  PROVE  g[s] = IF s = {} THEN b ELSE settle_statement(g[s \ {Max(s)}], u, o, l[Max(s)])
  BY Zenon DEF IsSettling

(* Two of them agree where both are defined. *)
LEMMA SettlingsAgree ==
  ASSUME NEW b, NEW u, NEW o, NEW l, NEW S, NEW U, IsFiniteSet(U), U \subseteq S, Numbers(S),
         NEW g1, NEW g2, IsSettling(g1, b, u, o, l, S), IsSettling(g2, b, u, o, l, U)
  PROVE  g1[U] = g2[U]
  <1> DEFINE T == {t \in SUBSET U : g1[t] # g2[t]}
  <1> SUFFICES T = {} OBVIOUS
  <1>1. SUFFICES ASSUME T # {} PROVE FALSE OBVIOUS
  <1>2. T \subseteq SUBSET U OBVIOUS
  <1> HIDE DEF T
  <1>3. PICK m \in T : \A y \in T : ~ (y \subseteq m /\ y # m) BY <1>1, <1>2, MinimalSubset
  <1>4. m \in SUBSET S /\ m \in SUBSET U /\ g1[m] # g2[m] BY <1>3 DEF T
  <1>5. g1[m] = IF m = {} THEN b ELSE settle_statement(g1[m \ {Max(m)}], u, o, l[Max(m)])
    BY <1>4, Zenon DEF IsSettling
  <1>6. g2[m] = IF m = {} THEN b ELSE settle_statement(g2[m \ {Max(m)}], u, o, l[Max(m)])
    BY <1>4, Zenon DEF IsSettling
  <1>7. m # {} BY <1>4, <1>5, <1>6
  <1>8. Max(m) \in m
    <2>1. IsFiniteSet(m) /\ Numbers(m) BY <1>4, FS_Subset DEF Numbers
    <2> QED BY <1>7, <2>1, GreatestIn
  <1>9. m \ {Max(m)} \notin T BY <1>3, <1>8
  <1>10. g1[m \ {Max(m)}] = g2[m \ {Max(m)}] BY <1>4, <1>9 DEF T
  <1> QED BY <1>4, <1>5, <1>6, <1>7, <1>10

(* The statements of a finite set of indices can be settled. *)
LEMMA SettlingExists ==
  ASSUME NEW b, NEW u, NEW o, NEW l, NEW S, IsFiniteSet(S), Numbers(S)
  PROVE  \E g : IsSettling(g, b, u, o, l, S)
  <1> DEFINE ok(g, t) == IsSettling(g, b, u, o, l, t)
             step(r, s) == settle_statement(r, u, o, l[Max(s)])
             T == {t \in SUBSET S : ~ \E g : ok(g, t)}
  <1> SUFFICES T = {} OBVIOUS
  <1>1. SUFFICES ASSUME T # {} PROVE FALSE OBVIOUS
  <1>2. T \subseteq SUBSET S OBVIOUS
  <1> HIDE DEF T
  <1>3. PICK m \in T : \A y \in T : ~ (y \subseteq m /\ y # m) BY <1>1, <1>2, MinimalSubset
  <1>4. m \in SUBSET S /\ ~ \E g : ok(g, m) BY <1>3 DEF T
  <1>a. ASSUME NEW s \in SUBSET m, s # {} PROVE Max(s) \in s
    <2>1. IsFiniteSet(s) /\ Numbers(s) BY <1>4, FS_Subset DEF Numbers
    <2> QED BY <1>a, <2>1, GreatestIn
  <1>b. ASSUME NEW s, NEW g, ok(g, s), NEW r \in SUBSET s
        PROVE  g[r] = IF r = {} THEN b ELSE step(g[r \ {Max(r)}], r)
    BY <1>b, SettlingUnfold
  <1>c. ASSUME NEW p, NEW q, NEW s, NEW r, Numbers(s), IsFiniteSet(r), r \subseteq s, ok(p, s), ok(q, r)
        PROVE p[r] = q[r]
    BY <1>c, SettlingsAgree
  <1> DEFINE part(s) == CHOOSE g : ok(g, s)
             below(s) == part(s)[s]
             g == [s \in SUBSET m |-> IF s = {} THEN b ELSE step(below(s \ {Max(s)}), s)]
  <1>5. ASSUME NEW s \in SUBSET m, s # m PROVE ok(part(s), s)
    <2>1. s \notin T BY <1>3, <1>5
    <2>2. \E h : ok(h, s) BY <1>4, <2>1 DEF T
    <2> HIDE DEF ok
    <2> QED BY <2>2
  <1> HIDE DEF part, ok, step
  <1>6. ASSUME NEW s \in SUBSET m, s # m PROVE g[s] = below(s)
    <2>1. ok(part(s), s) BY <1>5, <1>6
    <2>2. CASE s = {} BY <1>b, <2>1, <2>2
    <2>3. CASE s # {}
      <3> DEFINE r == s \ {Max(s)}
      <3>1. Max(s) \in s BY <1>a, <2>3
      <3>2. r \in SUBSET m /\ r # m /\ r \in SUBSET s /\ r \subseteq s /\ Numbers(s)
        BY <1>4, <1>6 DEF Numbers
      <3>3. ok(part(r), r) BY <1>5, <3>2
      <3>4. IsFiniteSet(r) BY <1>4, <3>2, FS_Subset
      <3>5. part(r)[r] = part(s)[r]
        <4> HIDE DEF r, g, below
        <4> QED BY <1>c, <2>1, <3>2, <3>3, <3>4
      <3>6. part(s)[s] = step(part(s)[r], s) BY <1>b, <2>1, <2>3
      <3> QED BY <2>3, <3>5, <3>6
    <2> QED BY <2>2, <2>3
  <1>7. ASSUME NEW s \in SUBSET m, s # {} PROVE below(s \ {Max(s)}) = g[s \ {Max(s)}]
    <2>1. Max(s) \in s BY <1>7, <1>a
    <2>2. s \ {Max(s)} \in SUBSET m /\ s \ {Max(s)} # m BY <2>1
    <2> HIDE DEF g, below
    <2> QED BY <1>6, <2>2
  <1>8. g = [s \in SUBSET m |-> IF s = {} THEN b ELSE step(g[s \ {Max(s)}], s)]
    <2> HIDE DEF below
    <2>1. \A s \in SUBSET m : (IF s = {} THEN b ELSE step(below(s \ {Max(s)}), s))
                             = (IF s = {} THEN b ELSE step(g[s \ {Max(s)}], s))
      <3> HIDE DEF g
      <3> QED BY <1>7
    <2> DEFINE k == g
    <2>2. k = [s \in SUBSET m |-> IF s = {} THEN b ELSE step(below(s \ {Max(s)}), s)] OBVIOUS
    <2> QED BY <2>1, Zenon
  <1>9. ok(g, m)
    <2> HIDE DEF g
    <2> QED BY <1>8 DEF ok, step, IsSettling
  <1> QED BY <1>4, <1>9

(* settle is the last value of such a function. *)
LEMMA SettleIs ==
  ASSUME NEW b, NEW u, NEW o, NEW agg, IsFiniteSet(DOMAIN agg.statements),
         Numbers(DOMAIN agg.statements)
  PROVE  \E g : /\ IsSettling(g, b, u, o, agg.statements, DOMAIN agg.statements)
                /\ settle(b, u, o, agg) = g[DOMAIN agg.statements]
  <1> DEFINE l == agg.statements
             g == CHOOSE h : IsSettling(h, b, u, o, l, DOMAIN l)
  <1>1. IsSettling(g, b, u, o, l, DOMAIN l) BY SettlingExists
  <1>2. settle(b, u, o, agg) = g[DOMAIN l]
    BY DEF settle, FoldLeft, MapThenFoldSet, IsSettling
  <1> QED BY <1>1, <1>2

(* What the statements of an aggregation have put on hold. *)
Share(l, x, q) == [i \in DOMAIN l |-> Part(l[i], x, q)]

LEMMA ShareNat ==
  ASSUME NEW l \in Seq(StatementEntry), NEW x, NEW q
  PROVE  \A i \in DOMAIN l : Share(l, x, q)[i] \in Nat
  BY PartNat DEF Share

(* settle takes the shares of all its statements. *)
LEMMA SettleFacts ==
  ASSUME NEW b \in Ledger, NEW u, NEW o, NEW agg \in AggregationEntry,
         NEW x \in Accounts, NEW q \in HoldReason
  PROVE  LET c == settle(b, u, o, agg)
         IN  c \in Ledger /\ Settled(b, c, x, q, SumFunction(Share(agg.statements, x, q)))
  <1> DEFINE l == agg.statements
             D == DOMAIN l
             f == Share(l, x, q)
             sum(t) == SumFunctionOnSet(f, t)
  <1>1. l \in Seq(StatementEntry) BY DEF AggregationEntry
  <1>2. IsFiniteSet(D) /\ Numbers(D)
    <2>1. Len(l) \in Nat /\ D = 1 .. Len(l) BY <1>1
    <2> QED BY <2>1, FS_Interval DEF Numbers
  <1>3. \A i \in D : l[i] \in StatementEntry BY <1>1
  <1>4. \A i \in D : f[i] \in Nat BY <1>1, ShareNat
  <1>5. DOMAIN f = D BY DEF Share
  <1>6. \A i \in D : f[i] = Part(l[i], x, q) BY DEF Share
  <1>7. PICK g : IsSettling(g, b, u, o, l, D) /\ settle(b, u, o, agg) = g[D] BY <1>2, SettleIs
  <1> DEFINE fine(t) == g[t] \in Ledger /\ Settled(b, g[t], x, q, sum(t))
             T == {t \in SUBSET D : ~ fine(t)}
  <1>8. T = {}
    <2>1. SUFFICES ASSUME T # {} PROVE FALSE OBVIOUS
    <2>2. T \subseteq SUBSET D OBVIOUS
    <2> HIDE DEF T, D, f, l
    <2>3. PICK m \in T : \A y \in T : ~ (y \subseteq m /\ y # m) BY <1>2, <2>1, <2>2, MinimalSubset
    <2>4. m \in SUBSET D /\ ~ fine(m) BY <2>3 DEF T
    <2>5. IsFiniteSet(m) /\ Numbers(m) BY <1>2, <2>4, FS_Subset DEF Numbers
    <2>6. g[m] = IF m = {} THEN b ELSE settle_statement(g[m \ {Max(m)}], u, o, l[Max(m)])
      BY <1>7, <2>4, SettlingUnfold
    <2>7. m # {}
      <3> SUFFICES ASSUME m = {} PROVE FALSE OBVIOUS
      <3>1. g[m] = b BY <2>6
      <3>2. sum(m) = 0 BY SumEmpty
      <3>3. b.free[x] \in Nat /\ b.held[x][q] \in Nat BY LedgerParts
      <3>4. Settled(b, b, x, q, 0) BY <3>3 DEF Settled, Excess
      <3>5. Settled(b, g[m], x, q, sum(m))
        <4> HIDE DEF sum
        <4> QED BY <3>1, <3>2, <3>4, Zenon
      <3> QED BY <2>4, <3>1, <3>5
    <2> DEFINE k == Max(m)
               r == m \ {k}
    <2>8. k \in m BY <2>5, <2>7, GreatestIn
    <2>9. r \in SUBSET D /\ r \notin T BY <2>3, <2>4, <2>8
    <2>10. fine(r) BY <2>9 DEF T
    <2>11. sum(m) = f[k] + sum(r)
      <3>1. \A y \in m : f[y] \in Nat BY <1>4, <2>4
      <3> HIDE DEF k
      <3> QED BY <2>5, <2>8, <3>1, SumRemove
    <2>12. sum(r) \in Nat
      <3>1. \A y \in r : f[y] \in Nat BY <1>4, <2>9
      <3>2. IsFiniteSet(r) BY <2>5, FS_Subset
      <3> HIDE DEF r
      <3> QED BY <3>1, <3>2, SumNat
    <2>13. f[k] \in Nat /\ f[k] = Part(l[k], x, q) /\ l[k] \in StatementEntry
      BY <1>3, <1>4, <1>6, <2>4, <2>8
    <2>14. g[m] = settle_statement(g[r], u, o, l[k]) BY <2>6, <2>7
    <2> HIDE DEF k, r, sum
    <2> DEFINE e == g[r]
    <2>15. e \in Ledger /\ Settled(b, e, x, q, sum(r)) BY <2>10
    <2> HIDE DEF e
    <2> DEFINE c == settle_statement(e, u, o, l[k])
    <2>16. c \in Ledger BY <2>13, <2>15, StatementFacts
    <2>17. Settled(e, c, x, q, Part(l[k], x, q)) BY <2>13, <2>15, StatementFacts
    <2>18. Settled(e, c, x, q, f[k]) BY <2>13, <2>17
    <2> HIDE DEF c
    <2>19. Settled(b, c, x, q, sum(r) + f[k])
      <3> DEFINE p == sum(r)
                 n == f[k]
      <3>1. p \in Nat /\ n \in Nat BY <2>12, <2>13
      <3>2. Settled(b, e, x, q, p) /\ Settled(e, c, x, q, n) BY <2>15, <2>18
      <3> HIDE DEF p, n
      <3>3. Settled(b, c, x, q, p + n) BY <2>15, <2>16, <3>1, <3>2, SettledTwice
      <3> QED BY <3>3 DEF p, n
    <2>20. sum(r) + f[k] = sum(m) BY <2>11, <2>12, <2>13
    <2>21. g[m] = c BY <2>14 DEF c, e
    <2> QED BY <2>4, <2>16, <2>19, <2>20, <2>21
  <1>9. fine(D)
    <2> HIDE DEF fine
    <2> QED BY <1>8
  <1>10. SumFunction(f) = sum(D) BY <1>5 DEF SumFunction, FoldFunction, SumFunctionOnSet
  <1> DEFINE c == settle(b, u, o, agg)
  <1>11. c \in Ledger /\ Settled(b, c, x, q, sum(D))
    <2> HIDE DEF c, D, sum
    <2>1. c = g[D] BY <1>7 DEF c, D
    <2> QED BY <1>9, <2>1, Zenon
  <1> HIDE DEF c, sum
  <1> QED BY <1>10, <1>11 DEF c
-----------------------------------------------------------------------------
(***************************************************************************)
(* What is owed for the statements that wait and for the tickets.          *)
(***************************************************************************)
(* What the statements of an aggregation have put on hold on an account. *)
Owed(agg, a, q) == SumFunction(Share(agg.statements, a, q))

LEMMA ShareParts ==
  ASSUME NEW l \in Seq(StatementEntry), NEW a, NEW q
  PROVE  /\ DOMAIN Share(l, a, q) = DOMAIN l
         /\ IsFiniteSet(DOMAIN l)
         /\ \A i \in DOMAIN l : Share(l, a, q)[i] = Part(l[i], a, q)
         /\ \A i \in DOMAIN l : Share(l, a, q)[i] \in Nat
  <1>1. Len(l) \in Nat /\ DOMAIN l = 1 .. Len(l) OBVIOUS
  <1>2. IsFiniteSet(DOMAIN l) BY <1>1, FS_Interval
  <1> QED BY <1>2, ShareNat DEF Share

LEMMA OwedNat ==
  ASSUME NEW agg \in AggregationEntry, NEW a, NEW q
  PROVE  Owed(agg, a, q) \in Nat
  <1>1. agg.statements \in Seq(StatementEntry) BY DEF AggregationEntry
  <1> DEFINE f == Share(agg.statements, a, q)
  <1>2. IsFiniteSet(DOMAIN f) /\ \A y \in DOMAIN f : f[y] \in Nat BY <1>1, ShareParts
  <1> HIDE DEF f
  <1>3. SumFunction(f) \in Nat BY <1>2, FunNat
  <1> QED BY <1>3 DEF f, Owed

LEMMA OwedNothing ==
  ASSUME NEW agg, agg.statements = <<>>, NEW a, NEW q
  PROVE  Owed(agg, a, q) = 0
  <1>1. DOMAIN Share(<<>>, a, q) = {} BY DEF Share
  <1> QED BY <1>1, SumEmpty DEF Owed, SumFunction

LEMMA OwedAppend ==
  ASSUME NEW agg \in AggregationEntry, NEW new, NEW e \in StatementEntry,
         new.statements = Append(agg.statements, e), NEW a, NEW q
  PROVE  Owed(new, a, q) = Owed(agg, a, q) + Part(e, a, q)
  <1> DEFINE l == agg.statements
             m == Append(l, e)
             n == Len(l) + 1
             f == Share(l, a, q)
             h == Share(m, a, q)
  <1>1. l \in Seq(StatementEntry) BY DEF AggregationEntry
  <1> HIDE DEF l
  <1>2. m \in Seq(StatementEntry) BY <1>1
  <1>3. Len(l) \in Nat /\ DOMAIN l = 1 .. Len(l) BY <1>1
  <1>4. DOMAIN m = DOMAIN l \cup {n} /\ n \notin DOMAIN l
    <2>1. DOMAIN m = 1 .. Len(l) + 1 BY <1>1
    <2> QED BY <1>3, <2>1
  <1>5. m[n] = e /\ \A i \in DOMAIN l : m[i] = l[i] BY <1>1, <1>3
  <1>6. Part(e, a, q) \in Nat BY PartNat
  <1> HIDE DEF m, n
  <1>7. /\ DOMAIN f = DOMAIN l /\ IsFiniteSet(DOMAIN l)
        /\ \A i \in DOMAIN l : f[i] = Part(l[i], a, q)
        /\ \A i \in DOMAIN l : f[i] \in Nat
    BY <1>1, ShareParts
  <1>8. /\ DOMAIN h = DOMAIN m
        /\ \A i \in DOMAIN m : h[i] = Part(m[i], a, q)
    BY <1>2, ShareParts
  <1>9. h[n] = Part(e, a, q) BY <1>4, <1>5, <1>8
  <1>10. \A i \in DOMAIN f : f[i] \in Nat /\ h[i] = f[i] BY <1>4, <1>5, <1>7, <1>8
  <1> HIDE DEF f, h
  <1>11. SumFunction(h) = SumFunction(f) + h[n]
    <2>1. DOMAIN h = DOMAIN f \cup {n} /\ n \notin DOMAIN f /\ IsFiniteSet(DOMAIN f)
      BY <1>4, <1>7, <1>8
    <2>2. h[n] \in Nat BY <1>6, <1>9
    <2> QED BY <1>10, <2>1, <2>2, FunExtend
  <1> QED BY <1>9, <1>11 DEF Owed, f, h, l, m

(* The part of a domain entry in that. *)
QueueShare(dom, a, q) == [i \in DOMAIN dom.should_publish |-> Owed(dom.should_publish[i], a, q)]

QueueOwed(dom, a, q) == Owed(dom.next, a, q) + SumFunction(QueueShare(dom, a, q))

LEMMA QueueParts ==
  ASSUME NEW dom, EntryTyped(dom), NEW a, NEW q
  PROVE  /\ DOMAIN QueueShare(dom, a, q) = DOMAIN dom.should_publish
         /\ IsFiniteSet(DOMAIN dom.should_publish)
         /\ \A i \in DOMAIN dom.should_publish :
              QueueShare(dom, a, q)[i] = Owed(dom.should_publish[i], a, q)
         /\ \A i \in DOMAIN dom.should_publish : QueueShare(dom, a, q)[i] \in Nat
         /\ SumFunction(QueueShare(dom, a, q)) \in Nat
         /\ Owed(dom.next, a, q) \in Nat
         /\ QueueOwed(dom, a, q) \in Nat
  <1>1. /\ IsFiniteSet(DOMAIN dom.should_publish)
        /\ dom.next \in AggregationEntry
        /\ dom.should_publish \in [DOMAIN dom.should_publish -> AggregationEntry]
    BY EntryFields
  <1> DEFINE f == QueueShare(dom, a, q)
  <1>2. DOMAIN f = DOMAIN dom.should_publish BY DEF QueueShare
  <1>3. \A i \in DOMAIN dom.should_publish : f[i] = Owed(dom.should_publish[i], a, q)
    BY DEF QueueShare
  <1>4. \A i \in DOMAIN dom.should_publish : f[i] \in Nat
    <2> SUFFICES ASSUME NEW i \in DOMAIN dom.should_publish PROVE f[i] \in Nat OBVIOUS
    <2>1. dom.should_publish[i] \in AggregationEntry BY <1>1
    <2> QED BY <1>3, <2>1, OwedNat
  <1> HIDE DEF f
  <1>5. SumFunction(f) \in Nat BY <1>1, <1>2, <1>4, FunNat
  <1>6. Owed(dom.next, a, q) \in Nat BY <1>1, OwedNat
  <1>7. QueueOwed(dom, a, q) \in Nat BY <1>5, <1>6 DEF QueueOwed, f
  <1> QED BY <1>1, <1>2, <1>3, <1>4, <1>5, <1>6, <1>7 DEF f

LEMMA QueueSame ==
  ASSUME NEW dom, NEW new, new.next = dom.next, new.should_publish = dom.should_publish,
         NEW a, NEW q
  PROVE  QueueOwed(new, a, q) = QueueOwed(dom, a, q)
  BY DEF QueueOwed, QueueShare

(* Accepting a statement adds its part. *)
LEMMA QueueAppend ==
  ASSUME NEW dom, EntryOK(dom), NEW new, EntryTyped(new), NEW e \in StatementEntry,
         dom.state = "Ready", Joined(dom, new, e) \/ Filled(dom, new, e), NEW a, NEW q
  PROVE  QueueOwed(new, a, q) = QueueOwed(dom, a, q) + Part(e, a, q)
  <1> DEFINE f == QueueShare(dom, a, q)
             h == QueueShare(new, a, q)
             id == dom.next.id
             ids == DOMAIN dom.should_publish
  <1>1. EntryTyped(dom) /\ EntryOrdered(dom) BY DEF EntryOK
  <1>2. dom.next \in AggregationEntry /\ dom.next.id \in Nat BY <1>1, EntryFields
  <1>3. Part(e, a, q) \in Nat BY PartNat
  <1>4. /\ DOMAIN f = ids /\ IsFiniteSet(ids)
        /\ \A i \in ids : f[i] = Owed(dom.should_publish[i], a, q)
        /\ \A i \in ids : f[i] \in Nat
        /\ SumFunction(f) \in Nat /\ Owed(dom.next, a, q) \in Nat
    BY <1>1, QueueParts
  <1>5. CASE Joined(dom, new, e)
    <2>1. Owed(new.next, a, q) = Owed(dom.next, a, q) + Part(e, a, q)
      <3>1. new.next.statements = Append(dom.next.statements, e) BY <1>5 DEF Joined
      <3> DEFINE nn == new.next
                 dn == dom.next
      <3>2. dn \in AggregationEntry /\ nn.statements = Append(dn.statements, e) BY <1>2, <3>1
      <3> HIDE DEF nn, dn
      <3>3. Owed(nn, a, q) = Owed(dn, a, q) + Part(e, a, q) BY <3>2, OwedAppend
      <3> QED BY <3>3 DEF nn, dn
    <2>2. h = f BY <1>5 DEF Joined, QueueShare
    <2> HIDE DEF f, h
    <2> QED BY <1>3, <1>4, <2>1, <2>2 DEF QueueOwed, f, h
  <1>6. CASE Filled(dom, new, e)
    <2>1. id \notin ids
      <3> SUFFICES ASSUME id \in ids PROVE FALSE OBVIOUS
      <3>1. dom.next.id # 0 BY <1>1 DEF EntryOrdered
      <3>2. dom.next.id < dom.next.id BY <1>1, <3>1 DEF EntryOrdered
      <3> QED BY <1>2, <3>2
    <2>2. Owed(new.next, a, q) = 0 BY <1>6, OwedNothing DEF Filled
    <2>3. /\ DOMAIN new.should_publish = ids \cup {id}
          /\ new.should_publish[id].statements = Append(dom.next.statements, e)
          /\ \A i \in ids : new.should_publish[i] = dom.should_publish[i]
      BY <1>6 DEF Filled
    <2>4. /\ DOMAIN h = DOMAIN new.should_publish
          /\ \A i \in DOMAIN new.should_publish : h[i] = Owed(new.should_publish[i], a, q)
          /\ \A i \in DOMAIN new.should_publish : h[i] \in Nat
      BY QueueParts
    <2>5. h[id] = Owed(dom.next, a, q) + Part(e, a, q)
      <3> DEFINE nn == new.should_publish[id]
                 dn == dom.next
      <3>1. dn \in AggregationEntry /\ nn.statements = Append(dn.statements, e) BY <1>2, <2>3
      <3>2. h[id] = Owed(nn, a, q) BY <2>3, <2>4
      <3> HIDE DEF nn, dn
      <3>3. Owed(nn, a, q) = Owed(dn, a, q) + Part(e, a, q) BY <3>1, OwedAppend
      <3> QED BY <3>2, <3>3 DEF dn
    <2>6. \A i \in DOMAIN f : f[i] \in Nat /\ h[i] = f[i] BY <1>4, <2>3, <2>4
    <2> HIDE DEF f, h, id, ids
    <2>7. SumFunction(h) = SumFunction(f) + h[id]
      <3>1. DOMAIN h = DOMAIN f \cup {id} /\ id \notin DOMAIN f BY <1>4, <2>1, <2>3, <2>4
      <3>2. IsFiniteSet(DOMAIN f) BY <1>4
      <3>3. h[id] \in Nat BY <2>3, <2>4
      <3> QED BY <2>6, <3>1, <3>2, <3>3, FunExtend
    <2> QED BY <1>3, <1>4, <2>2, <2>5, <2>7 DEF QueueOwed, f, h
  <1> QED BY <1>5, <1>6

(* Taking an aggregation takes the parts of its statements. *)
LEMMA QueueTake ==
  ASSUME NEW dom, EntryOK(dom), NEW new, EntryTyped(new), NEW id, can_take_aggregation(dom, id),
         IF dom.next.id = id THEN Emptied(dom, new) ELSE Dequeued(dom, new, id), NEW a, NEW q
  PROVE  QueueOwed(dom, a, q) = QueueOwed(new, a, q) + Owed(taken_aggregation(dom, id), a, q)
  <1> DEFINE f == QueueShare(dom, a, q)
             h == QueueShare(new, a, q)
             ids == DOMAIN dom.should_publish
  <1>1. EntryTyped(dom) BY DEF EntryOK
  <1>2. /\ DOMAIN f = ids /\ IsFiniteSet(ids)
        /\ \A i \in ids : f[i] = Owed(dom.should_publish[i], a, q)
        /\ \A i \in ids : f[i] \in Nat
        /\ SumFunction(f) \in Nat /\ Owed(dom.next, a, q) \in Nat
    BY <1>1, QueueParts
  <1>3. CASE dom.next.id = id
    <2>1. Owed(new.next, a, q) = 0 BY <1>3, OwedNothing DEF Emptied
    <2>2. h = f BY <1>3 DEF Emptied, QueueShare
    <2>3. taken_aggregation(dom, id) = dom.next BY <1>3 DEF taken_aggregation
    <2> HIDE DEF f, h
    <2> QED BY <1>2, <2>1, <2>2, <2>3 DEF QueueOwed, f, h
  <1>4. CASE dom.next.id # id
    <2>1. id \in ids /\ taken_aggregation(dom, id) = dom.should_publish[id]
      BY <1>4 DEF can_take_aggregation, taken_aggregation
    <2>2. /\ new.next = dom.next /\ DOMAIN new.should_publish = ids \ {id}
          /\ \A i \in DOMAIN new.should_publish : new.should_publish[i] = dom.should_publish[i]
      BY <1>4 DEF Dequeued
    <2>3. /\ DOMAIN h = DOMAIN new.should_publish /\ IsFiniteSet(DOMAIN new.should_publish)
          /\ \A i \in DOMAIN new.should_publish : h[i] = Owed(new.should_publish[i], a, q)
          /\ \A i \in DOMAIN new.should_publish : h[i] \in Nat
          /\ SumFunction(h) \in Nat
      BY QueueParts
    <2>4. \A i \in DOMAIN h : h[i] \in Nat /\ f[i] = h[i] BY <1>2, <2>2, <2>3
    <2>5. f[id] = Owed(taken_aggregation(dom, id), a, q) /\ f[id] \in Nat BY <1>2, <2>1
    <2> HIDE DEF f, h, ids
    <2>6. SumFunction(f) = SumFunction(h) + f[id]
      <3>1. DOMAIN f = DOMAIN h \cup {id} /\ id \notin DOMAIN h BY <1>2, <2>1, <2>2, <2>3
      <3>2. IsFiniteSet(DOMAIN h) BY <2>3
      <3> QED BY <2>4, <2>5, <3>1, <3>2, FunExtend
    <2> QED BY <1>2, <2>2, <2>3, <2>5, <2>6 DEF QueueOwed, f, h
  <1> QED BY <1>3, <1>4

(* What an account owes for one domain entry, by reason. *)
Due(dom, a, q) ==
  CASE q = "Domain" -> DomainTicket(dom, a)
    [] q = "Allowlist" -> AllowlistTicket(dom, a)
    [] OTHER -> QueueOwed(dom, a, q)

(* An account has a ticket for its domain, and one for its allowlist; the  *)
(* manager has none.                                                       *)
TicketsOK(dom) ==
  /\ dom.owner \in Accounts <=> dom.ticket_domain # None
  /\ (dom.owner \in Accounts /\ dom.proof_rules = "OnlyAllowlisted")
       <=> dom.ticket_allowlist # None
  /\ dom.ticket_allowlist # None =>
       dom.ticket_allowlist.amount = allowlist_deposit(dom.ticket_allowlist.count)

SameTickets(dom, new) ==
  /\ new.owner = dom.owner
  /\ new.proof_rules = dom.proof_rules
  /\ new.ticket_domain = dom.ticket_domain
  /\ new.ticket_allowlist = dom.ticket_allowlist

LEMMA TicketFields ==
  ASSUME NEW dom, EntryTyped(dom)
  PROVE  /\ dom.ticket_domain \in Nat \cup {None}
         /\ dom.ticket_allowlist \in [count : Nat, amount : Nat] \cup {None}
         /\ dom.ticket_allowlist # None =>
              dom.ticket_allowlist.count \in Nat /\ dom.ticket_allowlist.amount \in Nat
  <1>1. dom \in DomainEntry(DOMAIN dom.should_publish) BY EntryFields
  <1>2. /\ dom.ticket_domain \in Nat \cup {None}
        /\ dom.ticket_allowlist \in [count : Nat, amount : Nat] \cup {None}
    BY <1>1 DEF DomainEntry
  <1> QED BY <1>2

LEMMA DueNat ==
  ASSUME NEW dom, EntryTyped(dom), TicketsOK(dom), NEW a \in Accounts, NEW q
  PROVE  Due(dom, a, q) \in Nat
  <1>1. DomainTicket(dom, a) \in Nat BY TicketFields DEF DomainTicket, TicketsOK
  <1>2. AllowlistTicket(dom, a) \in Nat BY TicketFields DEF AllowlistTicket, TicketsOK
  <1>3. QueueOwed(dom, a, q) \in Nat BY QueueParts
  <1> QED BY <1>1, <1>2, <1>3 DEF Due

LEMMA SameTicketsDue ==
  ASSUME NEW dom, NEW new, SameTickets(dom, new), NEW a, NEW q
  PROVE  /\ q \in {"Domain", "Allowlist"} => Due(new, a, q) = Due(dom, a, q)
         /\ TicketsOK(dom) => TicketsOK(new)
  BY DEF Due, SameTickets, DomainTicket, AllowlistTicket, TicketsOK

(* The operations on the queue leave the tickets alone. *)
LEMMA HoldTickets ==
  ASSUME NEW d, NEW dom, NEW allowed, EntryTyped(dom)
  PROVE  /\ SameTickets(dom, update_hold_state(d, dom, allowed))
         /\ SameTickets(dom, handle_hold_state(d, dom, allowed))
  <1>1. dom \in DomainEntry(DOMAIN dom.should_publish) BY EntryFields
  <1>2. \A st : SameTickets(dom, [dom EXCEPT !.state = st]) BY <1>1 DEF DomainEntry, SameTickets
  <1> QED BY <1>2 DEF update_hold_state, handle_hold_state, SameTickets

LEMMA PopTickets ==
  ASSUME NEW dom, EntryTyped(dom)
  PROVE  SameTickets(dom, pop_next_aggregation(dom))
  <1>1. dom \in DomainEntry(DOMAIN dom.should_publish) BY EntryFields
  <1>2. \A nxt : /\ SameTickets(dom, [dom EXCEPT !.next = nxt])
                 /\ SameTickets(dom, [dom EXCEPT !.state = "Hold", !.next = nxt])
    BY <1>1 DEF DomainEntry, SameTickets
  <1> QED BY <1>2 DEF pop_next_aggregation

LEMMA QueueTickets ==
  ASSUME NEW dom, EntryTyped(dom), NEW queue
  PROVE  SameTickets(dom, [dom EXCEPT !.should_publish = queue])
  <1>1. dom \in DomainEntry(DOMAIN dom.should_publish) BY EntryFields
  <1> QED BY <1>1 DEF DomainEntry, SameTickets

LEMMA TakeTickets ==
  ASSUME NEW dom, EntryTyped(dom), NEW id
  PROVE  SameTickets(dom, take_aggregation(dom, id))
  BY PopTickets, QueueTickets DEF take_aggregation

LEMMA AppendTickets ==
  ASSUME NEW dom, EntryTyped(dom), dom.next.size # 0, NEW e \in StatementEntry
  PROVE  SameTickets(dom, append_statement(dom, e))
  <1> DEFINE filled == [dom.next EXCEPT !.statements = Append(@, e)]
             added == [dom EXCEPT !.next.statements = Append(@, e)]
  <1>1. /\ dom \in DomainEntry(DOMAIN dom.should_publish)
        /\ dom.next \in AggregationEntry
        /\ DOMAIN dom.should_publish \in SUBSET (0 .. U64Max)
    BY EntryFields
  <1>2. dom.next.statements \in Seq(StatementEntry) BY EntryFields
  <1>3. filled \in AggregationEntry /\ filled.size = dom.next.size
    <2> DEFINE longer == Append(dom.next.statements, e)
    <2>1. longer \in Seq(StatementEntry) BY <1>2
    <2>2. filled = [dom.next EXCEPT !.statements = longer] BY <1>1 DEF AggregationEntry
    <2> HIDE DEF longer, filled
    <2> QED BY <1>1, <2>1, <2>2 DEF AggregationEntry
  <1>4. added = [dom EXCEPT !.next = filled] BY <1>1 DEF DomainEntry
  <1> HIDE DEF filled, added
  <1>5. /\ added \in DomainEntry(DOMAIN dom.should_publish)
        /\ SameTickets(dom, added) /\ added.next.size # 0
    BY <1>1, <1>3, <1>4 DEF DomainEntry, SameTickets
  <1>6. EntryTyped(added) BY <1>1, <1>5 DEF EntryTyped
  <1>7. SameTickets(added, pop_next_aggregation(added)) /\ EntryTyped(pop_next_aggregation(added))
    BY <1>5, <1>6, PopTickets, PopFields
  <1>8. \A agg : SameTickets(dom, available_aggregation(pop_next_aggregation(added), agg))
    BY <1>5, <1>7, QueueTickets DEF available_aggregation, SameTickets
  <1> QED BY <1>5, <1>8 DEF append_statement, added
-----------------------------------------------------------------------------
(* What an account owes for all domains. *)
DueOf(doms, a, q) == [d \in DOMAIN doms |-> Due(doms[d], a, q)]

TotalDue(doms, a, q) == SumFunction(DueOf(doms, a, q))

(* A finite collection of entries that the pallet can have stored. *)
Stored(doms) ==
  /\ IsFiniteSet(DOMAIN doms)
  /\ \A d \in DOMAIN doms : EntryTyped(doms[d]) /\ TicketsOK(doms[d])

LEMMA DueParts ==
  ASSUME NEW doms, Stored(doms), NEW a \in Accounts, NEW q
  PROVE  /\ DOMAIN DueOf(doms, a, q) = DOMAIN doms
         /\ IsFiniteSet(DOMAIN doms)
         /\ \A d \in DOMAIN doms : DueOf(doms, a, q)[d] = Due(doms[d], a, q)
         /\ \A d \in DOMAIN doms : DueOf(doms, a, q)[d] \in Nat
  <1>1. \A d \in DOMAIN doms : Due(doms[d], a, q) \in Nat
    <2> SUFFICES ASSUME NEW d \in DOMAIN doms PROVE Due(doms[d], a, q) \in Nat OBVIOUS
    <2>1. EntryTyped(doms[d]) /\ TicketsOK(doms[d]) BY DEF Stored
    <2> QED BY <2>1, DueNat
  <1> QED BY <1>1 DEF Stored, DueOf

LEMMA TotalNat ==
  ASSUME NEW doms, Stored(doms), NEW a \in Accounts, NEW q
  PROVE  TotalDue(doms, a, q) \in Nat
  <1> DEFINE f == DueOf(doms, a, q)
  <1>1. IsFiniteSet(DOMAIN f) /\ \A d \in DOMAIN f : f[d] \in Nat BY DueParts
  <1> HIDE DEF f
  <1>2. SumFunction(f) \in Nat BY <1>1, FunNat
  <1> QED BY <1>2 DEF f, TotalDue

LEMMA TotalBound ==
  ASSUME NEW doms, Stored(doms), NEW a \in Accounts, NEW q, NEW d \in DOMAIN doms
  PROVE  Due(doms[d], a, q) <= TotalDue(doms, a, q)
  <1> DEFINE f == DueOf(doms, a, q)
  <1>1. IsFiniteSet(DOMAIN f) /\ (\A i \in DOMAIN f : f[i] \in Nat) /\ d \in DOMAIN f BY DueParts
  <1>2. f[d] = Due(doms[d], a, q) BY DueParts
  <1> HIDE DEF f
  <1>3. f[d] <= SumFunction(f) BY <1>1, FunBound
  <1> QED BY <1>2, <1>3 DEF f, TotalDue

(* An entry is replaced. *)
LEMMA TotalChange ==
  ASSUME NEW doms, NEW doms2, Stored(doms), Stored(doms2), NEW d \in DOMAIN doms,
         DOMAIN doms2 = DOMAIN doms, \A i \in DOMAIN doms : i # d => doms2[i] = doms[i],
         NEW a \in Accounts, NEW q
  PROVE  TotalDue(doms2, a, q) + Due(doms[d], a, q) = TotalDue(doms, a, q) + Due(doms2[d], a, q)
  <1> DEFINE f == DueOf(doms, a, q)
             h == DueOf(doms2, a, q)
  <1>1. /\ DOMAIN f = DOMAIN doms /\ IsFiniteSet(DOMAIN doms)
        /\ \A i \in DOMAIN doms : f[i] = Due(doms[i], a, q) /\ f[i] \in Nat
    BY DueParts
  <1>2. /\ DOMAIN h = DOMAIN doms2
        /\ \A i \in DOMAIN doms2 : h[i] = Due(doms2[i], a, q) /\ h[i] \in Nat
    BY DueParts
  <1>3. f[d] = Due(doms[d], a, q) /\ h[d] = Due(doms2[d], a, q) BY <1>1, <1>2
  <1> HIDE DEF f, h
  <1>4. SumFunction(h) + f[d] = SumFunction(f) + h[d]
    <2>1. d \in DOMAIN f /\ IsFiniteSet(DOMAIN f) /\ DOMAIN h = DOMAIN f BY <1>1, <1>2
    <2>2. \A y \in DOMAIN f : f[y] \in Nat /\ h[y] \in Nat BY <1>1, <1>2
    <2>3. \A y \in DOMAIN f \ {d} : f[y] = h[y] BY <1>1, <1>2
    <2> QED BY <2>1, <2>2, <2>3, FunChange
  <1> QED BY <1>3, <1>4 DEF f, h, TotalDue

(* An entry is added. *)
LEMMA TotalGrow ==
  ASSUME NEW doms, NEW doms2, Stored(doms), Stored(doms2), NEW d, d \notin DOMAIN doms,
         DOMAIN doms2 = DOMAIN doms \cup {d}, \A i \in DOMAIN doms : doms2[i] = doms[i],
         NEW a \in Accounts, NEW q
  PROVE  TotalDue(doms2, a, q) = TotalDue(doms, a, q) + Due(doms2[d], a, q)
  <1> DEFINE f == DueOf(doms, a, q)
             h == DueOf(doms2, a, q)
  <1>1. /\ DOMAIN f = DOMAIN doms /\ IsFiniteSet(DOMAIN doms)
        /\ \A i \in DOMAIN doms : f[i] = Due(doms[i], a, q) /\ f[i] \in Nat
    BY DueParts
  <1>2. /\ DOMAIN h = DOMAIN doms2
        /\ \A i \in DOMAIN doms2 : h[i] = Due(doms2[i], a, q) /\ h[i] \in Nat
    BY DueParts
  <1>3. h[d] = Due(doms2[d], a, q) /\ h[d] \in Nat BY <1>2
  <1> HIDE DEF f, h
  <1>4. SumFunction(h) = SumFunction(f) + h[d]
    <2>1. d \notin DOMAIN f /\ IsFiniteSet(DOMAIN f) /\ DOMAIN h = DOMAIN f \cup {d} BY <1>1, <1>2
    <2>2. \A y \in DOMAIN f : f[y] \in Nat /\ h[y] = f[y] BY <1>1, <1>2
    <2> QED BY <1>3, <2>1, <2>2, FunExtend
  <1> QED BY <1>3, <1>4 DEF f, h, TotalDue
-----------------------------------------------------------------------------
(***************************************************************************)
(* What the calls do to the holds is what they do to what is owed.         *)
(***************************************************************************)
(* Holds follow what is owed: they cover it if they did, and for a deposit *)
(* or an account whose locks do not exceed its free balance the difference *)
(* stays the same.                                                         *)
Balanced(b, c, old, new, a, q) ==
  /\ c.held[a][q] + old >= b.held[a][q] + new
  /\ (q \in {"Domain", "Allowlist"} \/ b.frozen[a] <= b.free[a])
       => c.held[a][q] + old = b.held[a][q] + new

LEMMA BalancedSum ==
  ASSUME NEW b \in Ledger, NEW c \in Ledger, NEW a \in Accounts, NEW q \in HoldReason,
         NEW m \in Nat, NEW n \in Nat, NEW s \in Nat, NEW t \in Nat, t + m = s + n,
         Balanced(b, c, m, n, a, q)
  PROVE  Balanced(b, c, s, t, a, q)
  <1> DEFINE g == b.held[a][q]
             h == c.held[a][q]
             exact == q \in {"Domain", "Allowlist"} \/ b.frozen[a] <= b.free[a]
  <1>1. g \in Nat /\ h \in Nat BY LedgerParts
  <1>2. h + m >= g + n /\ (exact => h + m = g + n) BY DEF Balanced
  <1> HIDE DEF g, h, exact
  <1>3. h + s >= g + t BY <1>1, <1>2
  <1>4. exact => h + s = g + t BY <1>1, <1>2
  <1> QED BY <1>3, <1>4 DEF Balanced, g, h, exact

(* What a submission puts on hold is its part. *)
LEMMA SubmitMoney ==
  ASSUME NEW b \in Ledger, NEW e \in StatementEntry,
         can_reserve_currency(b, e.account, e.reserve), NEW x \in Accounts, NEW q \in HoldReason
  PROVE  LET c == reserve_currency(b, e.account, e.reserve)
         IN  c \in Ledger /\ c.held[x][q] = b.held[x][q] + Part(e, x, q)
  <1> DEFINE a == e.account
             m == e.reserve.aggregate
             n == e.reserve.delivery
             d == Hold(b, "Aggregation", a, m)
             c == Hold(d, "Delivery", a, n)
  <1>1. a \in Accounts /\ m \in Nat /\ n \in Nat BY DEF StatementEntry
  <1>2. CanHold(b, a, m) /\ CanHold(d, a, n) BY DEF can_reserve_currency
  <1>3. reserve_currency(b, e.account, e.reserve) = c BY DEF reserve_currency
  <1>4. "Aggregation" \in HoldReason /\ "Delivery" \in HoldReason BY DEF HoldReason
  <1>5. Part(e, x, q) = IF x = a THEN IF q = "Aggregation" THEN m ELSE IF q = "Delivery" THEN n ELSE 0 ELSE 0
    BY DEF Part
  <1> HIDE DEF a, m, n
  <1>6. d \in Ledger BY <1>1, <1>2, <1>4, HoldFacts
  <1>7. d.held[x][q] = IF x = a /\ q = "Aggregation" THEN b.held[a]["Aggregation"] + m ELSE b.held[x][q]
    BY <1>1, <1>2, <1>4, HoldFacts
  <1>8. d.held[a]["Delivery"] = b.held[a]["Delivery"]
    BY <1>1, <1>2, <1>4, HoldFacts
  <1> HIDE DEF d
  <1>9. c \in Ledger BY <1>1, <1>2, <1>4, <1>6, HoldFacts
  <1>10. c.held[x][q] = IF x = a /\ q = "Delivery" THEN d.held[a]["Delivery"] + n ELSE d.held[x][q]
    BY <1>1, <1>2, <1>4, <1>6, HoldFacts
  <1> HIDE DEF c
  <1>11. b.held[x][q] \in Nat BY LedgerParts
  <1> QED BY <1>3, <1>5, <1>7, <1>8, <1>9, <1>10, <1>11

(* Publishing settles what the statements of the aggregation had on hold.  *)
LEMMA SettleMoney ==
  ASSUME NEW b \in Ledger, NEW u, NEW o, NEW agg \in AggregationEntry,
         NEW x \in Accounts, NEW q \in HoldReason, NEW m \in Nat,
         q \notin {"Domain", "Allowlist"} => b.held[x][q] >= Owed(agg, x, q)
  PROVE  LET c == settle(b, u, o, agg)
         IN  /\ c \in Ledger
             /\ q \notin {"Domain", "Allowlist"} => Balanced(b, c, m + Owed(agg, x, q), m, x, q)
             /\ q \in {"Domain", "Allowlist"} => Balanced(b, c, m, m, x, q)
  <1> DEFINE c == settle(b, u, o, agg)
             n == Owed(agg, x, q)
  <1>1. c \in Ledger BY SettleFacts
  <1>2. Settled(b, c, x, q, n) BY SettleFacts DEF Owed
  <1>3. n \in Nat BY OwedNat
  <1>4. q \in {"Domain", "Allowlist"} => n = 0
    <2> SUFFICES ASSUME q \in {"Domain", "Allowlist"} PROVE n = 0 OBVIOUS
    <2> DEFINE f == Share(agg.statements, x, q)
    <2>1. agg.statements \in Seq(StatementEntry) BY DEF AggregationEntry
    <2>2. DOMAIN f = DOMAIN agg.statements /\ IsFiniteSet(DOMAIN f) BY <2>1, ShareParts
    <2>3. \A i \in DOMAIN f : f[i] = 0
      <3>1. \A s : Part(s, x, q) = 0 BY DEF Part
      <3> QED BY <2>2, <3>1 DEF Share
    <2> HIDE DEF f
    <2>4. SumFunction(f) = 0 BY <2>2, <2>3, SumZero DEF SumFunction
    <2> QED BY <2>4 DEF f, Owed
  <1>5. b.held[x][q] \in Nat BY LedgerParts
  <1> HIDE DEF c, n
  <1>6. c.held[x][q] \in Nat BY <1>1, LedgerParts
  <1>7. q \notin {"Domain", "Allowlist"} => b.held[x][q] >= n BY DEF n
  <1>8. q \notin {"Domain", "Allowlist"} => Balanced(b, c, m + n, m, x, q)
    BY <1>2, <1>3, <1>5, <1>6, <1>7 DEF Settled, Balanced, Excess
  <1>9. q \in {"Domain", "Allowlist"} => Balanced(b, c, m, m, x, q)
    BY <1>2, <1>4, <1>5, <1>6 DEF Settled, Balanced
  <1> QED BY <1>1, <1>8, <1>9 DEF c, n

(* The deposit of an allowlist grows with the list. *)
LEMMA DepositNat ==
  ASSUME NEW n \in Nat
  PROVE  allowlist_deposit(n) \in Nat
  <1>1. AllowlistBaseDeposit \in Nat /\ AllowlistItemDeposit \in Nat BY InputAssumption
  <1>2. AllowlistItemDeposit * n \in Nat BY <1>1
  <1> QED BY <1>1, <1>2 DEF allowlist_deposit

LEMMA DepositGrows ==
  ASSUME NEW m \in Nat, NEW n \in Nat, m <= n
  PROVE  allowlist_deposit(m) <= allowlist_deposit(n)
  <1>1. AllowlistBaseDeposit \in Nat /\ AllowlistItemDeposit \in Nat BY InputAssumption
  <1> DEFINE p == AllowlistItemDeposit
             k == n - m
  <1>2. k \in Nat /\ n = m + k BY SMT
  <1> HIDE DEF k, p
  <1>3. p \in Nat BY <1>1 DEF p
  <1>4. p * k \in Nat /\ p * m \in Nat BY <1>2, <1>3
  <1>5. p * (m + k) = p * m + p * k BY <1>2, <1>3
  <1>6. p * m <= p * n BY <1>2, <1>4, <1>5
  <1>7. p * n \in Nat BY <1>3
  <1> QED BY <1>1, <1>4, <1>6, <1>7 DEF allowlist_deposit, p

(* settle_ticket follows update_ticket. *)
LEMMA TicketMoney ==
  ASSUME NEW b \in Ledger, NEW dom, EntryTyped(dom), TicketsOK(dom),
         NEW count, dom.ticket_allowlist # None => count \in Nat,
         dom.ticket_allowlist # None /\ allowlist_deposit(count) >= dom.ticket_allowlist.amount =>
           CanHold(b, dom.owner, allowlist_deposit(count) - dom.ticket_allowlist.amount),
         NEW x \in Accounts, NEW q \in HoldReason, b.held[x][q] >= Due(dom, x, q),
         dom.owner \in Accounts => b.held[dom.owner]["Allowlist"] >= Due(dom, dom.owner, "Allowlist")
  PROVE  LET c == settle_ticket(b, dom, count)
             new == update_ticket(dom, count)
         IN  /\ c \in Ledger
             /\ TicketsOK(new)
             /\ c.held[x][q] + Due(dom, x, q) = b.held[x][q] + Due(new, x, q)
  <1> DEFINE c == settle_ticket(b, dom, count)
             new == update_ticket(dom, count)
             o == dom.owner
             old == dom.ticket_allowlist.amount
             amount == allowlist_deposit(count)
             ticket == IF dom.ticket_allowlist = None THEN None
                       ELSE [count |-> count, amount |-> allowlist_deposit(count)]
  <1>1. b.held[x][q] \in Nat /\ Due(dom, x, q) \in Nat BY LedgerParts, DueNat
  <1>2. dom \in DomainEntry(DOMAIN dom.should_publish) BY EntryFields
  <1>3. new = [dom EXCEPT !.ticket_allowlist = ticket] BY DEF update_ticket
  <1>4. /\ new.owner = dom.owner /\ new.proof_rules = dom.proof_rules
        /\ new.ticket_domain = dom.ticket_domain /\ new.next = dom.next
        /\ new.should_publish = dom.should_publish /\ new.ticket_allowlist = ticket
    <2> HIDE DEF ticket, new
    <2> QED BY <1>2, <1>3 DEF DomainEntry
  <1>5. CASE dom.ticket_allowlist = None
    <2>1. c = b BY <1>5 DEF settle_ticket
    <2>2. SameTickets(dom, new) BY <1>4, <1>5 DEF SameTickets
    <2> HIDE DEF new, c, ticket
    <2>3. Due(new, x, q) = Due(dom, x, q) BY <1>4, <2>2, SameTicketsDue, QueueSame DEF Due
    <2>4. TicketsOK(new) BY <2>2, SameTicketsDue
    <2> QED BY <2>1, <2>3, <2>4 DEF c, new
  <1>6. CASE dom.ticket_allowlist # None
    <2>1. o \in Accounts /\ dom.proof_rules = "OnlyAllowlisted" BY <1>6 DEF TicketsOK
    <2>2. old \in Nat /\ count \in Nat /\ amount \in Nat BY <1>6, TicketFields, DepositNat
    <2>3. ticket = [count |-> count, amount |-> amount] /\ ticket # None
      BY <1>6, <2>2, ConfigAssumption
    <2>4. ticket.count = count /\ ticket.amount = amount BY <2>3
    <2>5. TicketsOK(new)
      <3> HIDE DEF ticket, new
      <3> QED BY <1>4, <1>6, <2>1, <2>3, <2>4 DEF TicketsOK
    <2>6. Due(new, x, q) = IF x = o /\ q = "Allowlist" THEN amount ELSE Due(dom, x, q)
      <3> HIDE DEF ticket, new
      <3>1. QueueOwed(new, x, q) = QueueOwed(dom, x, q) BY <1>4, QueueSame
      <3> QED BY <1>4, <2>1, <2>4, <3>1 DEF Due, DomainTicket, AllowlistTicket
    <2>7. Due(dom, o, "Allowlist") = old BY <2>1 DEF Due, AllowlistTicket
    <2>8. b.held[o]["Allowlist"] \in Nat /\ b.held[o]["Allowlist"] >= old
      <3>1. "Allowlist" \in HoldReason BY DEF HoldReason
      <3> QED BY <2>1, <2>7, <3>1, LedgerParts
    <2>9. "Allowlist" \in HoldReason BY DEF HoldReason
    <2>10. CASE amount >= old
      <3> DEFINE n == amount - old
      <3>1. c = Hold(b, "Allowlist", o, n) BY <1>6, <2>10 DEF settle_ticket
      <3>2. CanHold(b, o, n) BY <1>6, <2>10
      <3>3. n \in Nat /\ n + old = amount BY <2>2, <2>10
      <3> HIDE DEF n, o, amount, old, c, ticket, new
      <3> DEFINE h == Hold(b, "Allowlist", o, n)
      <3>4. h \in Ledger BY <2>1, <2>9, <3>2, <3>3, HoldFacts
      <3>5. h.held[x][q] = IF x = o /\ q = "Allowlist" THEN b.held[o]["Allowlist"] + n ELSE b.held[x][q]
        BY <2>1, <2>9, <3>2, <3>3, HoldFacts
      <3> HIDE DEF h
      <3>6. h.held[x][q] + Due(dom, x, q) = b.held[x][q] + Due(new, x, q)
        BY <1>1, <2>2, <2>6, <2>7, <3>3, <3>5
      <3> QED BY <2>5, <3>1, <3>4, <3>6 DEF h, c, new
    <2>11. CASE ~ (amount >= old)
      <3> DEFINE n == old - amount
      <3>1. c = Release(b, "Allowlist", o, n) BY <1>6, <2>11 DEF settle_ticket
      <3>3. n \in Nat /\ n + amount = old BY <2>2, <2>11
      <3> HIDE DEF n, o, amount, old, c, ticket, new
      <3> DEFINE h == Release(b, "Allowlist", o, n)
      <3>4. h \in Ledger BY <2>1, <2>9, <3>3, ReleaseFacts
      <3>5. h.held[x][q] = IF x = o /\ q = "Allowlist" THEN Excess(b.held[o]["Allowlist"], n) ELSE b.held[x][q]
        BY <2>1, <2>9, <3>3, ReleaseFacts
      <3>6. Excess(b.held[o]["Allowlist"], n) + n = b.held[o]["Allowlist"]
        BY <2>2, <2>8, <3>3 DEF Excess
      <3>7. Excess(b.held[o]["Allowlist"], n) \in Nat BY <2>8, <3>3 DEF Excess
      <3> HIDE DEF h
      <3>8. h.held[x][q] + Due(dom, x, q) = b.held[x][q] + Due(new, x, q)
        BY <1>1, <2>2, <2>6, <2>7, <3>3, <3>5, <3>6, <3>7
      <3> QED BY <2>5, <3>1, <3>4, <3>8 DEF h, c, new
    <2> QED BY <2>10, <2>11
  <1> QED BY <1>5, <1>6

(* drop_tickets gives both deposits back. *)
LEMMA DropMoney ==
  ASSUME NEW b \in Ledger, NEW dom, EntryTyped(dom), TicketsOK(dom),
         \A a \in Accounts : /\ b.held[a]["Domain"] >= Due(dom, a, "Domain")
                             /\ b.held[a]["Allowlist"] >= Due(dom, a, "Allowlist"),
         NEW x \in Accounts, NEW q \in HoldReason,
         q \notin {"Domain", "Allowlist"} => Due(dom, x, q) = 0
  PROVE  LET c == drop_tickets(b, dom)
         IN  c \in Ledger /\ c.held[x][q] + Due(dom, x, q) = b.held[x][q]
  <1> DEFINE o == dom.owner
             m == dom.ticket_domain
             n == dom.ticket_allowlist.amount
             first == IF dom.ticket_domain = None THEN b ELSE Release(b, "Domain", o, m)
             c == IF dom.ticket_allowlist = None THEN first ELSE Release(first, "Allowlist", o, n)
  <1>1. drop_tickets(b, dom) = c BY DEF drop_tickets
  <1>2. b.held[x][q] \in Nat /\ Due(dom, x, q) \in Nat BY LedgerParts, DueNat
  <1>3. "Allowlist" \in HoldReason /\ "Domain" \in HoldReason BY DEF HoldReason
  <1> DEFINE paid == IF x = o /\ q = "Domain" /\ dom.ticket_domain # None THEN m ELSE 0
             listed == IF x = o /\ q = "Allowlist" /\ dom.ticket_allowlist # None THEN n ELSE 0
  <1>4. Due(dom, x, q) = paid + listed /\ paid \in Nat /\ listed \in Nat
    BY TicketFields DEF Due, DomainTicket, AllowlistTicket, TicketsOK
  <1>5. /\ first \in Ledger
        /\ first.held[x][q] + paid = b.held[x][q]
        /\ o \in Accounts => first.held[o]["Allowlist"] = b.held[o]["Allowlist"]
    <2>1. CASE dom.ticket_domain = None BY <1>2, <2>1
    <2>2. CASE dom.ticket_domain # None
      <3>1. o \in Accounts /\ m \in Nat BY <2>2, TicketFields DEF TicketsOK
      <3>2. b.held[o]["Domain"] \in Nat /\ b.held[o]["Domain"] >= m
        BY <1>3, <3>1, LedgerParts DEF Due, DomainTicket
      <3>3. first = Release(b, "Domain", o, m) BY <2>2
      <3> HIDE DEF first, o, m
      <3> DEFINE h == Release(b, "Domain", o, m)
      <3>4. h \in Ledger BY <1>3, <3>1, ReleaseFacts
      <3>5. h.held[x][q] = IF x = o /\ q = "Domain" THEN Excess(b.held[o]["Domain"], m) ELSE b.held[x][q]
        BY <1>3, <3>1, ReleaseFacts
      <3>6. h.held[o]["Allowlist"] = b.held[o]["Allowlist"] BY <1>3, <3>1, ReleaseFacts
      <3> HIDE DEF h
      <3>7. Excess(b.held[o]["Domain"], m) + m = b.held[o]["Domain"] BY <3>1, <3>2 DEF Excess
      <3>8. h.held[x][q] + paid = b.held[x][q] BY <1>2, <2>2, <3>5, <3>7
      <3> QED BY <3>3, <3>4, <3>6, <3>8 DEF h
    <2> HIDE DEF paid
    <2> QED BY <2>1, <2>2
  <1> HIDE DEF first, paid
  <1>6. c \in Ledger /\ c.held[x][q] + listed = first.held[x][q]
    <2>0. first.held[x][q] \in Nat BY <1>5, LedgerParts
    <2>1. CASE dom.ticket_allowlist = None BY <1>5, <2>0, <2>1
    <2>2. CASE dom.ticket_allowlist # None
      <3>1. o \in Accounts /\ n \in Nat /\ dom.proof_rules = "OnlyAllowlisted"
        BY <2>2, TicketFields DEF TicketsOK
      <3>2. first.held[o]["Allowlist"] \in Nat /\ first.held[o]["Allowlist"] >= n
        <4>1. b.held[o]["Allowlist"] >= Due(dom, o, "Allowlist") BY <3>1
        <4>2. Due(dom, o, "Allowlist") = n BY <3>1 DEF Due, AllowlistTicket
        <4>3. b.held[o]["Allowlist"] \in Nat BY <1>3, <3>1, LedgerParts
        <4> HIDE DEF o, n
        <4> QED BY <1>5, <3>1, <4>1, <4>2, <4>3
      <3>3. c = Release(first, "Allowlist", o, n) BY <2>2
      <3> HIDE DEF c, o, n
      <3> DEFINE h == Release(first, "Allowlist", o, n)
      <3>4. h \in Ledger BY <1>3, <1>5, <3>1, ReleaseFacts
      <3>5. h.held[x][q] = IF x = o /\ q = "Allowlist" THEN Excess(first.held[o]["Allowlist"], n)
                                                        ELSE first.held[x][q]
        BY <1>3, <1>5, <3>1, ReleaseFacts
      <3> HIDE DEF h
      <3>7. Excess(first.held[o]["Allowlist"], n) + n = first.held[o]["Allowlist"]
        BY <3>1, <3>2 DEF Excess
      <3>8. h.held[x][q] + listed = first.held[x][q] BY <2>0, <2>2, <3>5, <3>7
      <3> QED BY <3>3, <3>4, <3>8 DEF h
    <2> QED BY <2>1, <2>2
  <1> HIDE DEF c, listed
  <1>7. c.held[x][q] \in Nat /\ first.held[x][q] \in Nat BY <1>5, <1>6, LedgerParts
  <1> QED BY <1>1, <1>2, <1>4, <1>5, <1>6, <1>7

(* The deposits of a new domain. *)
LEMMA RegisterMoney ==
  ASSUME NEW b \in Ledger, NEW u \in Users, NEW paid \in Nat, NEW new,
         new.owner = u, new.next.statements = <<>>, DOMAIN new.should_publish = {},
         new.ticket_domain = (IF u \in Accounts THEN paid ELSE None),
         new.ticket_allowlist =
           (IF u \in Accounts /\ new.proof_rules = "OnlyAllowlisted"
            THEN [count |-> 0, amount |-> allowlist_deposit(0)] ELSE None),
         u \in Accounts => CanHold(b, u, paid),
         NEW charged, charged = (IF u \in Accounts THEN Hold(b, "Domain", u, paid) ELSE b),
         u \in Accounts /\ new.proof_rules = "OnlyAllowlisted" =>
           CanHold(charged, u, allowlist_deposit(0)),
         NEW c, c = (IF u \in Accounts /\ new.proof_rules = "OnlyAllowlisted"
                     THEN Hold(charged, "Allowlist", u, allowlist_deposit(0)) ELSE charged),
         NEW x \in Accounts, NEW q \in HoldReason
  PROVE  /\ c \in Ledger
         /\ TicketsOK(new)
         /\ c.held[x][q] = b.held[x][q] + Due(new, x, q)
  <1> DEFINE listed == u \in Accounts /\ new.proof_rules = "OnlyAllowlisted"
             n == allowlist_deposit(0)
             ticket == [count |-> 0, amount |-> n]
             p1 == IF x = u /\ q = "Domain" THEN paid ELSE 0
             p2 == IF x = u /\ q = "Allowlist" /\ listed THEN n ELSE 0
  <1>1. n \in Nat BY DepositNat
  <1>2. ticket # None /\ ticket.count = 0 /\ ticket.amount = n BY <1>1, ConfigAssumption
  <1>3. paid # None BY ConfigAssumption
  <1>4. TicketsOK(new) BY <1>2, <1>3 DEF TicketsOK
  <1>5. QueueOwed(new, x, q) = 0
    <2>1. Owed(new.next, x, q) = 0 BY OwedNothing
    <2>2. DOMAIN QueueShare(new, x, q) = {} BY DEF QueueShare
    <2>3. SumFunction(QueueShare(new, x, q)) = 0 BY <2>2, SumEmpty DEF SumFunction
    <2> QED BY <2>1, <2>3 DEF QueueOwed
  <1>6. Due(new, x, q) = p1 + p2 /\ p1 \in Nat /\ p2 \in Nat
    BY <1>1, <1>2, <1>5 DEF Due, DomainTicket, AllowlistTicket
  <1>7. "Allowlist" \in HoldReason /\ "Domain" \in HoldReason BY DEF HoldReason
  <1>8. charged \in Ledger /\ charged.held[x][q] = b.held[x][q] + p1
    <2>1. CASE u \notin Accounts
      <3>1. b.held[x][q] \in Nat BY LedgerParts
      <3> QED BY <2>1, <3>1
    <2>2. CASE u \in Accounts
      <3> DEFINE h == Hold(b, "Domain", u, paid)
      <3>1. h \in Ledger BY <1>7, <2>2, HoldFacts
      <3>2. h.held[x][q] = IF x = u /\ q = "Domain" THEN b.held[u]["Domain"] + paid ELSE b.held[x][q]
        BY <1>7, <2>2, HoldFacts
      <3>3. charged = h BY <2>2
      <3>4. b.held[x][q] \in Nat BY LedgerParts
      <3> HIDE DEF h
      <3> QED BY <3>1, <3>2, <3>3, <3>4
    <2> QED BY <2>1, <2>2
  <1>9. c \in Ledger /\ c.held[x][q] = charged.held[x][q] + p2
    <2>0. charged.held[x][q] \in Nat BY <1>8, LedgerParts
    <2>1. CASE ~ listed BY <1>8, <2>0, <2>1
    <2>2. CASE listed
      <3> DEFINE h == Hold(charged, "Allowlist", u, n)
      <3>0. c = h /\ u \in Accounts /\ CanHold(charged, u, n) BY <2>2
      <3> HIDE DEF n
      <3>1. h \in Ledger BY <1>1, <1>7, <1>8, <3>0, HoldFacts
      <3>2. h.held[x][q] = IF x = u /\ q = "Allowlist" THEN charged.held[u]["Allowlist"] + n
                                                        ELSE charged.held[x][q]
        BY <1>1, <1>7, <1>8, <3>0, HoldFacts
      <3> HIDE DEF h
      <3> QED BY <2>0, <2>2, <3>0, <3>1, <3>2
    <2> QED BY <2>1, <2>2
  <1>10. b.held[x][q] \in Nat BY LedgerParts
  <1> HIDE DEF p1, p2
  <1> QED BY <1>4, <1>6, <1>8, <1>9, <1>10, SMTT(30)
-----------------------------------------------------------------------------
(* The ticket of a domain counts the entries of its list. *)
Counted(d, dom, allowed) ==
  dom.ticket_allowlist # None =>
    dom.ticket_allowlist.count = Cardinality({a \in Accounts : <<d, a>> \in allowed})

(* The holds cover what is owed; deposits are held exactly. *)
Funded(b, doms) ==
  \A a \in Accounts, q \in HoldReason :
    /\ b.held[a][q] >= TotalDue(doms, a, q)
    /\ q \in {"Domain", "Allowlist"} => b.held[a][q] = TotalDue(doms, a, q)

MoneyInv(b, doms, allowed) ==
  /\ b \in Ledger
  /\ Stored(doms)
  /\ \A d \in DOMAIN doms : Counted(d, doms[d], allowed)
  /\ Funded(b, doms)

MoneyStep(b, c, doms, doms2, allowed) ==
  /\ c \in Ledger
  /\ Stored(doms2)
  /\ \A d \in DOMAIN doms2 : Counted(d, doms2[d], allowed)
  /\ \A a \in Accounts, q \in HoldReason :
       Balanced(b, c, TotalDue(doms, a, q), TotalDue(doms2, a, q), a, q)

(* Such a step keeps the invariant. *)
LEMMA MoneyKept ==
  ASSUME NEW b, NEW c, NEW doms, NEW doms2, NEW allowed, NEW allowed2,
         MoneyInv(b, doms, allowed), MoneyStep(b, c, doms, doms2, allowed2)
  PROVE  MoneyInv(c, doms2, allowed2)
  <1>1. b \in Ledger /\ c \in Ledger /\ Stored(doms) /\ Stored(doms2) BY DEF MoneyInv, MoneyStep
  <1>2. ASSUME NEW a \in Accounts, NEW q \in HoldReason
        PROVE  /\ c.held[a][q] >= TotalDue(doms2, a, q)
               /\ q \in {"Domain", "Allowlist"} => c.held[a][q] = TotalDue(doms2, a, q)
    <2> DEFINE s == TotalDue(doms, a, q)
               t == TotalDue(doms2, a, q)
               g == b.held[a][q]
               h == c.held[a][q]
               exact == q \in {"Domain", "Allowlist"}
    <2>1. s \in Nat /\ t \in Nat BY <1>1, TotalNat
    <2>2. g \in Nat /\ h \in Nat BY <1>1, LedgerParts
    <2>3. g >= s /\ (exact => g = s) BY DEF MoneyInv, Funded
    <2>4. Balanced(b, c, s, t, a, q) BY DEF MoneyStep
    <2>5. h + s >= g + t /\ (exact => h + s = g + t) BY <2>4 DEF Balanced
    <2> HIDE DEF s, t, g, h, exact
    <2>6. h >= t BY <2>1, <2>2, <2>3, <2>5
    <2>7. exact => h = t BY <2>1, <2>2, <2>3, <2>5
    <2> QED BY <2>6, <2>7 DEF s, t, g, h, exact
  <1>3. Funded(c, doms2) BY <1>2 DEF Funded
  <1> QED BY <1>3 DEF MoneyInv, MoneyStep

(* The entry of one domain is stored, replaced or removed. *)
WithEntry(doms, d, new) == [i \in DOMAIN doms \cup {d} |-> IF i = d THEN new ELSE doms[i]]

Without(doms, d) == [i \in DOMAIN doms \ {d} |-> doms[i]]

EntryBalanced(b, c, dom, new) ==
  \A a \in Accounts, q \in HoldReason : Balanced(b, c, Due(dom, a, q), Due(new, a, q), a, q)

SameElsewhere(d, doms, allowed, allowed2) ==
  \A i \in DOMAIN doms, a \in Accounts : i # d => (<<i, a>> \in allowed2 <=> <<i, a>> \in allowed)

LEMMA CountedSame ==
  ASSUME NEW d, NEW dom, NEW allowed, NEW allowed2, Counted(d, dom, allowed),
         \A a \in Accounts : <<d, a>> \in allowed2 <=> <<d, a>> \in allowed
  PROVE  Counted(d, dom, allowed2)
  <1>1. {a \in Accounts : <<d, a>> \in allowed2} = {a \in Accounts : <<d, a>> \in allowed} OBVIOUS
  <1> QED BY <1>1 DEF Counted

LEMMA ReplaceEntry ==
  ASSUME NEW b, NEW doms, NEW allowed, NEW allowed2, MoneyInv(b, doms, allowed),
         NEW d \in DOMAIN doms, NEW new, EntryTyped(new), TicketsOK(new),
         Counted(d, new, allowed2), SameElsewhere(d, doms, allowed, allowed2),
         NEW c \in Ledger, EntryBalanced(b, c, doms[d], new)
  PROVE  MoneyStep(b, c, doms, WithEntry(doms, d, new), allowed2)
  <1> DEFINE doms2 == WithEntry(doms, d, new)
  <1>1. /\ DOMAIN doms2 = DOMAIN doms /\ doms2[d] = new
        /\ \A i \in DOMAIN doms : i # d => doms2[i] = doms[i]
    BY DEF WithEntry
  <1> HIDE DEF doms2
  <1>2. b \in Ledger /\ Stored(doms) BY DEF MoneyInv
  <1>3. Stored(doms2) BY <1>1, <1>2 DEF Stored
  <1>4. ASSUME NEW i \in DOMAIN doms2 PROVE Counted(i, doms2[i], allowed2)
    <2>1. CASE i = d BY <1>1, <2>1
    <2>2. CASE i # d
      <3>1. Counted(i, doms[i], allowed) BY <1>1 DEF MoneyInv
      <3>2. \A a \in Accounts : <<i, a>> \in allowed2 <=> <<i, a>> \in allowed
        BY <1>1, <2>2 DEF SameElsewhere
      <3>3. Counted(i, doms[i], allowed2) BY <3>1, <3>2, CountedSame
      <3> QED BY <1>1, <2>2, <3>3
    <2> QED BY <2>1, <2>2
  <1>5. ASSUME NEW a \in Accounts, NEW q \in HoldReason
        PROVE  Balanced(b, c, TotalDue(doms, a, q), TotalDue(doms2, a, q), a, q)
    <2> DEFINE s == TotalDue(doms, a, q)
               t == TotalDue(doms2, a, q)
               m == Due(doms[d], a, q)
               n == Due(doms2[d], a, q)
    <2>1. s \in Nat /\ t \in Nat BY <1>2, <1>3, TotalNat
    <2>2. m \in Nat /\ n \in Nat BY <1>1, <1>2, DueNat DEF Stored
    <2>3. t + m = s + n BY <1>1, <1>2, <1>3, TotalChange
    <2>4. Balanced(b, c, m, n, a, q) BY <1>1 DEF EntryBalanced
    <2> HIDE DEF s, t, m, n
    <2>5. Balanced(b, c, s, t, a, q) BY <1>2, <2>1, <2>2, <2>3, <2>4, BalancedSum
    <2> QED BY <2>5 DEF s, t
  <1> QED BY <1>3, <1>4, <1>5 DEF MoneyStep, doms2

LEMMA AddEntry ==
  ASSUME NEW b, NEW doms, NEW allowed, MoneyInv(b, doms, allowed),
         NEW d, d \notin DOMAIN doms, NEW new, EntryTyped(new), TicketsOK(new),
         Counted(d, new, allowed), NEW c \in Ledger,
         \A a \in Accounts, q \in HoldReason : c.held[a][q] = b.held[a][q] + Due(new, a, q)
  PROVE  MoneyStep(b, c, doms, WithEntry(doms, d, new), allowed)
  <1> DEFINE doms2 == WithEntry(doms, d, new)
  <1>1. /\ DOMAIN doms2 = DOMAIN doms \cup {d} /\ doms2[d] = new
        /\ \A i \in DOMAIN doms : doms2[i] = doms[i]
    BY DEF WithEntry
  <1> HIDE DEF doms2
  <1>2. b \in Ledger /\ Stored(doms) BY DEF MoneyInv
  <1>3. Stored(doms2)
    <2>1. IsFiniteSet(DOMAIN doms2) BY <1>1, <1>2, FS_AddElement DEF Stored
    <2> QED BY <1>1, <1>2, <2>1 DEF Stored
  <1>4. \A i \in DOMAIN doms2 : Counted(i, doms2[i], allowed) BY <1>1 DEF MoneyInv
  <1>5. ASSUME NEW a \in Accounts, NEW q \in HoldReason
        PROVE  Balanced(b, c, TotalDue(doms, a, q), TotalDue(doms2, a, q), a, q)
    <2> DEFINE s == TotalDue(doms, a, q)
               t == TotalDue(doms2, a, q)
               n == Due(doms2[d], a, q)
               g == b.held[a][q]
               h == c.held[a][q]
    <2>1. s \in Nat /\ t \in Nat BY <1>2, <1>3, TotalNat
    <2>2. n \in Nat BY <1>1, DueNat
    <2>3. t = s + n BY <1>1, <1>2, <1>3, TotalGrow
    <2>4. h = g + n BY <1>1
    <2>5. g \in Nat /\ h \in Nat BY <1>2, LedgerParts
    <2> HIDE DEF s, t, n, g, h
    <2>6. h + s = g + t /\ h + s >= g + t BY <2>1, <2>2, <2>3, <2>4, <2>5
    <2> QED BY <2>6 DEF s, t, g, h, Balanced
  <1> QED BY <1>3, <1>4, <1>5 DEF MoneyStep, doms2

LEMMA RemoveEntry ==
  ASSUME NEW b, NEW doms, NEW allowed, MoneyInv(b, doms, allowed),
         NEW d \in DOMAIN doms, NEW c \in Ledger,
         \A a \in Accounts, q \in HoldReason : c.held[a][q] + Due(doms[d], a, q) = b.held[a][q]
  PROVE  MoneyStep(b, c, doms, Without(doms, d), allowed)
  <1> DEFINE doms2 == Without(doms, d)
  <1>1. /\ DOMAIN doms2 = DOMAIN doms \ {d}
        /\ \A i \in DOMAIN doms2 : doms2[i] = doms[i]
    BY DEF Without
  <1> HIDE DEF doms2
  <1>2. b \in Ledger /\ Stored(doms) BY DEF MoneyInv
  <1>3. Stored(doms2)
    <2>1. IsFiniteSet(DOMAIN doms2) BY <1>1, <1>2, FS_Subset DEF Stored
    <2> QED BY <1>1, <1>2, <2>1 DEF Stored
  <1>4. \A i \in DOMAIN doms2 : Counted(i, doms2[i], allowed) BY <1>1 DEF MoneyInv
  <1>5. ASSUME NEW a \in Accounts, NEW q \in HoldReason
        PROVE  Balanced(b, c, TotalDue(doms, a, q), TotalDue(doms2, a, q), a, q)
    <2> DEFINE s == TotalDue(doms, a, q)
               t == TotalDue(doms2, a, q)
               n == Due(doms[d], a, q)
               g == b.held[a][q]
               h == c.held[a][q]
    <2>1. s \in Nat /\ t \in Nat BY <1>2, <1>3, TotalNat
    <2>2. n \in Nat BY <1>2, DueNat DEF Stored
    <2>3. s = t + n
      <3>1. d \notin DOMAIN doms2 /\ DOMAIN doms = DOMAIN doms2 \cup {d} BY <1>1
      <3>2. \A i \in DOMAIN doms2 : doms[i] = doms2[i] BY <1>1
      <3> QED BY <1>2, <1>3, <3>1, <3>2, TotalGrow
    <2>4. h + n = g OBVIOUS
    <2>5. g \in Nat /\ h \in Nat BY <1>2, LedgerParts
    <2> HIDE DEF s, t, n, g, h
    <2>6. h + s = g + t /\ h + s >= g + t BY <2>1, <2>2, <2>3, <2>4, <2>5
    <2> QED BY <2>6 DEF s, t, g, h, Balanced
  <1> QED BY <1>3, <1>4, <1>5 DEF MoneyStep, doms2
-----------------------------------------------------------------------------
(***************************************************************************)
(* The invariant about the holds, and a lemma for each action.             *)
(***************************************************************************)
LInv == IInv /\ MoneyInv(ledger, domains, allowlist)

Paid == MoneyStep(ledger, ledger', domains, domains', allowlist')

LEMMA StoredMoney ==
  ASSUME LInv, NEW d \in DOMAIN domains
  PROVE  /\ EntryOK(domains[d]) /\ EntryTyped(domains[d]) /\ d \in DomainId
         /\ domains[d].next.size \in Nat \ {0}
         /\ TicketsOK(domains[d]) /\ Counted(d, domains[d], allowlist)
         /\ ledger \in Ledger /\ Stored(domains)
  <1>1. IInv /\ MoneyInv(ledger, domains, allowlist) BY DEF LInv
  <1> QED BY <1>1, StoredEntry DEF MoneyInv, Stored

LEMMA DueCovered ==
  ASSUME LInv, NEW d \in DOMAIN domains, NEW a \in Accounts, NEW q \in HoldReason
  PROVE  ledger.held[a][q] >= Due(domains[d], a, q)
  <1>1. MoneyInv(ledger, domains, allowlist) BY DEF LInv
  <1>2. Stored(domains) /\ ledger \in Ledger /\ TotalDue(domains, a, q) <= ledger.held[a][q]
    BY <1>1 DEF MoneyInv, Funded
  <1>3. Due(domains[d], a, q) <= TotalDue(domains, a, q) BY <1>2, TotalBound
  <1>4. Due(domains[d], a, q) \in Nat BY StoredMoney, DueNat
  <1>5. TotalDue(domains, a, q) \in Nat BY <1>2, TotalNat
  <1>6. ledger.held[a][q] \in Nat BY <1>2, LedgerParts
  <1> QED BY <1>2, <1>3, <1>4, <1>5, <1>6

(* A call that changes one entry. *)
LEMMA EntryMoney ==
  ASSUME LInv, NEW d \in DOMAIN domains, NEW new, set_domain(d, new), EntryTyped(new),
         TicketsOK(new), Counted(d, new, allowlist'),
         SameElsewhere(d, domains, allowlist, allowlist'),
         ledger' \in Ledger, EntryBalanced(ledger, ledger', domains[d], new)
  PROVE  Paid
  <1>1. domains' = WithEntry(domains, d, new) BY DEF set_domain, WithEntry
  <1>2. ASSUME NEW c \in Ledger, NEW allowed, Counted(d, new, allowed),
               SameElsewhere(d, domains, allowlist, allowed),
               EntryBalanced(ledger, c, domains[d], new)
        PROVE  MoneyStep(ledger, c, domains, WithEntry(domains, d, new), allowed)
    <2>1. MoneyInv(ledger, domains, allowlist) BY DEF LInv
    <2> QED BY <1>2, <2>1, ReplaceEntry
  <1> QED BY <1>1, <1>2 DEF Paid

(* The calls that leave list and tickets alone. *)
LEMMA SameTicketsMoney ==
  ASSUME LInv, NEW d \in DOMAIN domains, NEW new, set_domain(d, new), EntryTyped(new),
         SameTickets(domains[d], new), allowlist' = allowlist,
         ledger' \in Ledger, EntryBalanced(ledger, ledger', domains[d], new)
  PROVE  Paid
  <1>1. TicketsOK(domains[d]) /\ Counted(d, domains[d], allowlist) BY StoredMoney
  <1>2. TicketsOK(new) BY <1>1, SameTicketsDue
  <1>3. Counted(d, new, allowlist') BY <1>1 DEF Counted, SameTickets
  <1>4. SameElsewhere(d, domains, allowlist, allowlist') BY DEF SameElsewhere
  <1> QED BY <1>2, <1>3, <1>4, EntryMoney

LEMMA UnpaidMoney ==
  ASSUME LInv, NEW d \in DOMAIN domains, NEW new, set_domain(d, new), EntryTyped(new),
         SameTickets(domains[d], new), new.next = domains[d].next,
         new.should_publish = domains[d].should_publish,
         UNCHANGED <<allowlist, ledger>>
  PROVE  Paid
  <1>1. ledger \in Ledger /\ EntryTyped(domains[d]) /\ TicketsOK(domains[d]) BY StoredMoney
  <1>2. ASSUME NEW a \in Accounts, NEW q \in HoldReason
        PROVE  Balanced(ledger, ledger, Due(domains[d], a, q), Due(new, a, q), a, q)
    <2>1. Due(new, a, q) = Due(domains[d], a, q) BY SameTicketsDue, QueueSame DEF Due
    <2>2. ledger.held[a][q] \in Nat /\ Due(domains[d], a, q) \in Nat BY <1>1, LedgerParts, DueNat
    <2> QED BY <2>1, <2>2 DEF Balanced
  <1>3. EntryBalanced(ledger, ledger, domains[d], new) BY <1>2 DEF EntryBalanced
  <1>4. ledger' = ledger /\ allowlist' = allowlist OBVIOUS
  <1> QED BY <1>1, <1>3, <1>4, SameTicketsMoney

LEMMA SubmitPaid ==
  ASSUME LInv, NEW a \in Accounts, NEW d \in DOMAIN domains, NEW s \in Statements,
         NEW f \in CallFees, on_proof_verified(a, d, s, f)
  PROVE  Paid
  <1> DEFINE dom == domains[d]
             e == [account |-> a, reserve |-> Reserve(dom, f), statement |-> s]
             added == append_statement(dom, e)
             new == handle_hold_state(d, added, allowlist)
             c == reserve_currency(ledger, a, Reserve(dom, f))
  <1>1. /\ EntryOK(dom) /\ EntryTyped(dom) /\ dom.next.size # 0
        /\ TicketsOK(dom) /\ ledger \in Ledger
    BY StoredMoney
  <1>2. /\ dom.state = "Ready" /\ can_add_statement(dom)
        /\ can_reserve_currency(ledger, a, Reserve(dom, f))
        /\ ledger' = c /\ set_domain(d, new) /\ allowlist' = allowlist
    BY DEF on_proof_verified
  <1>3. e \in StatementEntry BY <1>1, ReserveTyped DEF StatementEntry
  <1>4. e.account = a /\ e.reserve = Reserve(dom, f) OBVIOUS
  <1> HIDE DEF e
  <1>5. EntryOK(added) BY <1>1, <1>2, <1>3, AppendOK
  <1>6. Joined(dom, added, e) \/ Filled(dom, added, e) BY <1>1, <1>2, <1>3, AppendQueue
  <1>7. SameTickets(dom, added) BY <1>1, <1>3, AppendTickets
  <1> HIDE DEF added
  <1>8. EntryTyped(added) BY <1>5 DEF EntryOK
  <1>9. SameTickets(added, new) BY <1>8, HoldTickets
  <1>10. new.next = added.next /\ new.should_publish = added.should_publish BY <1>8, HoldQueue
  <1>11. EntryTyped(new) BY <1>5, HoldStateOK DEF EntryOK
  <1> HIDE DEF new
  <1>12. SameTickets(dom, new) BY <1>7, <1>9 DEF SameTickets
  <1>13. can_reserve_currency(ledger, e.account, e.reserve)
        /\ c = reserve_currency(ledger, e.account, e.reserve)
    BY <1>2, <1>4
  <1> HIDE DEF c
  <1>14. ASSUME NEW x \in Accounts, NEW q \in HoldReason
         PROVE  c \in Ledger /\ Balanced(ledger, c, Due(dom, x, q), Due(new, x, q), x, q)
    <2> DEFINE p == Part(e, x, q)
               r == reserve_currency(ledger, e.account, e.reserve)
    <2>1. r \in Ledger /\ r.held[x][q] = ledger.held[x][q] + p BY <1>1, <1>3, <1>13, SubmitMoney
    <2>2. ledger.held[x][q] \in Nat /\ p \in Nat /\ Due(dom, x, q) \in Nat
      BY <1>1, <1>3, LedgerParts, PartNat, DueNat
    <2>3. Due(new, x, q) = Due(dom, x, q) + p
      <3>1. CASE q \in {"Domain", "Allowlist"}
        <4>1. p = 0 BY <3>1 DEF Part
        <4>2. Due(new, x, q) = Due(dom, x, q) BY <1>12, <3>1, SameTicketsDue
        <4> QED BY <2>2, <4>1, <4>2
      <3>2. CASE q \notin {"Domain", "Allowlist"}
        <4>1. QueueOwed(added, x, q) = QueueOwed(dom, x, q) + p
          BY <1>1, <1>2, <1>3, <1>6, <1>8, QueueAppend
        <4>2. QueueOwed(new, x, q) = QueueOwed(added, x, q) BY <1>10, QueueSame
        <4> QED BY <3>2, <4>1, <4>2 DEF Due
      <3> QED BY <3>1, <3>2
    <2>4. c = r BY <1>13
    <2> HIDE DEF p, r
    <2>5. c.held[x][q] = ledger.held[x][q] + p /\ c \in Ledger BY <2>1, <2>4
    <2> QED BY <2>2, <2>3, <2>5 DEF Balanced
  <1>15. EntryBalanced(ledger, c, dom, new) BY <1>14 DEF EntryBalanced
  <1>16. c \in Ledger
    <2>1. "Domain" \in HoldReason BY DEF HoldReason
    <2> QED BY <1>14, <2>1
  <1> QED BY <1>2, <1>11, <1>12, <1>15, <1>16, SameTicketsMoney

LEMMA AggregatePaid ==
  ASSUME LInv, NEW u \in Users, NEW d \in DOMAIN domains, NEW id, aggregate(u, d, id)
  PROVE  Paid
  <1> DEFINE dom == domains[d]
             agg == taken_aggregation(dom, id)
             taken == take_aggregation(dom, id)
             new == handle_hold_state(d, taken, allowlist)
             c == settle(ledger, u, dom.delivery.owner, agg)
  <1>1. EntryOK(dom) /\ EntryTyped(dom) /\ TicketsOK(dom) /\ ledger \in Ledger BY StoredMoney
  <1>2. /\ can_take_aggregation(dom, id)
        /\ ledger' = c /\ set_domain(d, new) /\ allowlist' = allowlist
    BY DEF aggregate
  <1>3. EntryOK(taken) /\ agg \in AggregationEntry BY <1>1, <1>2, TakeOK
  <1>4. IF dom.next.id = id THEN Emptied(dom, taken) ELSE Dequeued(dom, taken, id)
    BY <1>1, <1>2, TakeQueue
  <1>5. SameTickets(dom, taken) BY <1>1, TakeTickets
  <1> HIDE DEF taken
  <1>6. EntryTyped(taken) BY <1>3 DEF EntryOK
  <1>7. SameTickets(taken, new) BY <1>6, HoldTickets
  <1>8. new.next = taken.next /\ new.should_publish = taken.should_publish BY <1>6, HoldQueue
  <1>9. EntryTyped(new) BY <1>3, HoldStateOK DEF EntryOK
  <1> HIDE DEF new
  <1>10. SameTickets(dom, new) BY <1>5, <1>7 DEF SameTickets
  <1>11. TicketsOK(new) BY <1>1, <1>10, SameTicketsDue
  <1>12. ASSUME NEW x \in Accounts, NEW q \in HoldReason
         PROVE  c \in Ledger /\ Balanced(ledger, c, Due(dom, x, q), Due(new, x, q), x, q)
    <2> DEFINE m == Due(new, x, q)
               n == Owed(agg, x, q)
    <2>1. m \in Nat BY <1>9, <1>11, DueNat
    <2>2. q \notin {"Domain", "Allowlist"} => Due(dom, x, q) = m + n
      <3>1. QueueOwed(dom, x, q) = QueueOwed(taken, x, q) + n BY <1>1, <1>2, <1>4, <1>6, QueueTake
      <3>2. QueueOwed(new, x, q) = QueueOwed(taken, x, q) BY <1>8, QueueSame
      <3> QED BY <3>1, <3>2 DEF Due
    <2>3. q \in {"Domain", "Allowlist"} => Due(dom, x, q) = m BY <1>10, SameTicketsDue
    <2>4. n \in Nat BY <1>3, OwedNat
    <2>5. ledger.held[x][q] >= Due(dom, x, q) BY DueCovered
    <2>6. ledger.held[x][q] \in Nat BY <1>1, LedgerParts
    <2> HIDE DEF m
    <2>7. q \notin {"Domain", "Allowlist"} => ledger.held[x][q] >= n
      <3> HIDE DEF n
      <3> QED BY <2>1, <2>2, <2>4, <2>5, <2>6
    <2> DEFINE o == dom.delivery.owner
               t == settle(ledger, u, o, agg)
    <2> HIDE DEF o, agg
    <2>8. t \in Ledger BY <1>1, <1>3, <2>1, <2>7, SettleMoney
    <2>9. q \notin {"Domain", "Allowlist"} => Balanced(ledger, t, m + n, m, x, q)
      BY <1>1, <1>3, <2>1, <2>7, SettleMoney
    <2>10. q \in {"Domain", "Allowlist"} => Balanced(ledger, t, m, m, x, q)
      BY <1>1, <1>3, <2>1, <2>7, SettleMoney
    <2>11. t = c BY DEF o
    <2> HIDE DEF t, c, n
    <2> QED BY <2>2, <2>3, <2>8, <2>9, <2>10, <2>11 DEF m
  <1>13. EntryBalanced(ledger, c, dom, new) BY <1>12 DEF EntryBalanced
  <1>14. c \in Ledger
    <2>1. SUFFICES \E x \in Accounts : TRUE BY <1>12 DEF HoldReason
    <2>2. dom.delivery.owner \in Accounts
      <3>1. dom \in DomainEntry(DOMAIN dom.should_publish) BY <1>1, EntryFields
      <3> QED BY <3>1 DEF DomainEntry
    <2> QED BY <2>2
  <1> HIDE DEF c
  <1> QED BY <1>2, <1>9, <1>10, <1>13, <1>14, SameTicketsMoney

LEMMA HoldPaid ==
  ASSUME LInv, NEW u \in Users, NEW d \in DOMAIN domains, hold_domain(u, d)
  PROVE  Paid
  <1> DEFINE dom == domains[d]
             new == update_hold_state(d, dom, allowlist)
  <1>1. EntryOK(dom) /\ EntryTyped(dom) BY StoredMoney
  <1>2. set_domain(d, new) /\ UNCHANGED <<allowlist, ledger>> BY DEF hold_domain
  <1>3. SameTickets(dom, new) /\ new.next = dom.next /\ new.should_publish = dom.should_publish
    BY <1>1, HoldTickets, HoldQueue
  <1>4. EntryTyped(new) BY <1>1, HoldStateOK DEF EntryOK
  <1> HIDE DEF new
  <1> QED BY <1>2, <1>3, <1>4, UnpaidMoney

LEMMA FeePaid ==
  ASSUME LInv, NEW u \in Users, NEW d \in DOMAIN domains, NEW del \in Deliveries,
         set_total_delivery_fee(u, d, del)
  PROVE  Paid
  <1> DEFINE dom == domains[d]
             new == [dom EXCEPT !.delivery.fee = del.fee, !.delivery.owner_tip = del.owner_tip]
  <1>1. EntryTyped(dom) BY StoredMoney
  <1>2. set_domain(d, new) /\ UNCHANGED <<allowlist, ledger>> BY DEF set_total_delivery_fee
  <1>3. EntryTyped(new) /\ SameTerms(dom, new) /\ SameQueue(dom, new)
    <2>1. del \in [fee : Nat, owner_tip : Nat] BY InputAssumption
    <2> QED BY <1>1, <2>1, DeliveryOK
  <1>4. new.ticket_domain = dom.ticket_domain /\ new.ticket_allowlist = dom.ticket_allowlist
    <2>1. dom \in DomainEntry(DOMAIN dom.should_publish) BY <1>1, EntryFields
    <2> QED BY <2>1 DEF DomainEntry
  <1> HIDE DEF new
  <1>5. SameTickets(dom, new) BY <1>3, <1>4 DEF SameTickets, SameTerms
  <1>6. new.next = dom.next /\ new.should_publish = dom.should_publish BY <1>3 DEF SameQueue
  <1> QED BY <1>2, <1>3, <1>5, <1>6, UnpaidMoney

(* A ticket with a new count, for a changed list. *)
LEMMA TicketPaid ==
  ASSUME LInv, NEW d \in DOMAIN domains, NEW count, NEW new,
         domains[d].ticket_allowlist # None =>
           /\ count \in Nat
           /\ count = Cardinality({a \in Accounts : <<d, a>> \in allowlist'})
           /\ allowlist_deposit(count) >= domains[d].ticket_allowlist.amount =>
                CanHold(ledger, domains[d].owner,
                        allowlist_deposit(count) - domains[d].ticket_allowlist.amount),
         SameElsewhere(d, domains, allowlist, allowlist'),
         set_domain(d, new), EntryTyped(new), SameTickets(update_ticket(domains[d], count), new),
         new.next = domains[d].next, new.should_publish = domains[d].should_publish,
         ledger' = settle_ticket(ledger, domains[d], count)
  PROVE  Paid
  <1> DEFINE dom == domains[d]
             c == settle_ticket(ledger, dom, count)
             ticketed == update_ticket(dom, count)
  <1>1. EntryTyped(dom) /\ TicketsOK(dom) /\ ledger \in Ledger /\ EntryOK(dom) BY StoredMoney
  <1>2. "Allowlist" \in HoldReason /\ "Domain" \in HoldReason BY DEF HoldReason
  <1>3. ASSUME NEW x \in Accounts, NEW q \in HoldReason
        PROVE  /\ c \in Ledger
               /\ TicketsOK(ticketed)
               /\ c.held[x][q] + Due(dom, x, q) = ledger.held[x][q] + Due(ticketed, x, q)
    <2>1. ledger.held[x][q] >= Due(dom, x, q) BY DueCovered
    <2>2. dom.owner \in Accounts =>
            ledger.held[dom.owner]["Allowlist"] >= Due(dom, dom.owner, "Allowlist")
      BY <1>2, DueCovered
    <2>3. /\ dom.ticket_allowlist # None => count \in Nat
          /\ dom.ticket_allowlist # None /\ allowlist_deposit(count) >= dom.ticket_allowlist.amount =>
               CanHold(ledger, dom.owner, allowlist_deposit(count) - dom.ticket_allowlist.amount)
      OBVIOUS
    <2> HIDE DEF dom
    <2>4. c \in Ledger BY <1>1, <2>1, <2>2, <2>3, TicketMoney
    <2>5. TicketsOK(ticketed) BY <1>1, <2>1, <2>2, <2>3, TicketMoney
    <2>6. c.held[x][q] + Due(dom, x, q) = ledger.held[x][q] + Due(ticketed, x, q)
      BY <1>1, <2>1, <2>2, <2>3, TicketMoney
    <2> QED BY <2>4, <2>5, <2>6
  <1>4. \E x \in Accounts : TRUE
    <2>1. dom.delivery.owner \in Accounts
      <3>1. dom \in DomainEntry(DOMAIN dom.should_publish) BY <1>1, EntryFields
      <3> QED BY <3>1 DEF DomainEntry
    <2> QED BY <2>1
  <1>5. c \in Ledger /\ TicketsOK(ticketed) BY <1>2, <1>3, <1>4
  <1>6. TicketsOK(new)
    <2> HIDE DEF ticketed
    <2> QED BY <1>5, SameTicketsDue DEF ticketed
  <1>7. ticketed.next = dom.next /\ ticketed.should_publish = dom.should_publish
    BY <1>1, TicketOK DEF SameQueue
  <1>8. dom.ticket_allowlist = None => ticketed.ticket_allowlist = None
    <2>1. dom \in DomainEntry(DOMAIN dom.should_publish) BY <1>1, EntryFields
    <2> QED BY <2>1 DEF update_ticket, DomainEntry
  <1>9. dom.ticket_allowlist # None => ticketed.ticket_allowlist.count = count
    <2>1. dom \in DomainEntry(DOMAIN dom.should_publish) BY <1>1, EntryFields
    <2>2. SUFFICES ASSUME dom.ticket_allowlist # None
                   PROVE ticketed.ticket_allowlist.count = count OBVIOUS
    <2> DEFINE t == [count |-> count, amount |-> allowlist_deposit(count)]
    <2>3. ticketed = [dom EXCEPT !.ticket_allowlist = t] BY <2>2 DEF update_ticket
    <2>4. t.count = count OBVIOUS
    <2> HIDE DEF t, ticketed
    <2>5. ticketed.ticket_allowlist = t BY <2>1, <2>3 DEF DomainEntry
    <2> QED BY <2>4, <2>5
  <1>10. SameTickets(ticketed, new) OBVIOUS
  <1> HIDE DEF ticketed, c
  <1>11. Counted(d, new, allowlist') BY <1>8, <1>9, <1>10 DEF Counted, SameTickets
  <1>12. ASSUME NEW x \in Accounts, NEW q \in HoldReason
         PROVE  Balanced(ledger, c, Due(dom, x, q), Due(new, x, q), x, q)
    <2>1. Due(new, x, q) = Due(ticketed, x, q)
      BY <1>7, <1>10, SameTicketsDue, QueueSame DEF Due
    <2>2. c.held[x][q] + Due(dom, x, q) = ledger.held[x][q] + Due(ticketed, x, q) BY <1>3
    <2>3. Due(new, x, q) \in Nat BY <1>6, DueNat
    <2>4. Due(dom, x, q) \in Nat BY <1>1, DueNat
    <2>5. c.held[x][q] \in Nat /\ ledger.held[x][q] \in Nat BY <1>1, <1>5, LedgerParts
    <2>6. c.held[x][q] + Due(dom, x, q) = ledger.held[x][q] + Due(new, x, q) BY <2>1, <2>2
    <2> QED BY <2>3, <2>4, <2>5, <2>6 DEF Balanced
  <1>13. EntryBalanced(ledger, c, dom, new) BY <1>12 DEF EntryBalanced
  <1>14. ledger' = c BY DEF c
  <1> QED BY <1>5, <1>6, <1>11, <1>13, <1>14, EntryMoney

(* The list of one domain, before a change. *)
LEMMA Listed ==
  ASSUME LInv, NEW d \in DOMAIN domains, domains[d].ticket_allowlist # None
  PROVE  LET listed == {a \in Accounts : <<d, a>> \in allowlist}
         IN  /\ IsFiniteSet(listed)
             /\ Cardinality(listed) \in Nat
             /\ ticket_count(domains[d]) = Cardinality(listed)
             /\ domains[d].ticket_allowlist.amount = allowlist_deposit(Cardinality(listed))
             /\ domains[d].ticket_allowlist.amount \in Nat
  <1> DEFINE listed == {a \in Accounts : <<d, a>> \in allowlist}
  <1>1. IsFiniteSet(listed) BY ConfigAssumption, FS_Subset
  <1>2. Cardinality(listed) \in Nat BY <1>1, FS_CardinalityType
  <1>3. Counted(d, domains[d], allowlist) /\ TicketsOK(domains[d]) /\ EntryTyped(domains[d])
    BY StoredMoney
  <1>4. domains[d].ticket_allowlist.count = Cardinality(listed) BY <1>3 DEF Counted
  <1>5. domains[d].ticket_allowlist.amount = allowlist_deposit(Cardinality(listed))
    BY <1>3, <1>4 DEF TicketsOK
  <1> QED BY <1>1, <1>2, <1>3, <1>4, <1>5, TicketFields DEF ticket_count

LEMMA AllowPaid ==
  ASSUME LInv, NEW u \in Users, NEW d \in DOMAIN domains, NEW s \in SUBSET Accounts,
         allowlist_proof_submitters(u, d, s)
  PROVE  Paid
  <1> DEFINE dom == domains[d]
             added == {a \in s : <<d, a>> \notin allowlist}
             count == ticket_count(dom) + Cardinality(added)
             new == update_ticket(dom, count)
             listed == {a \in Accounts : <<d, a>> \in allowlist}
  <1>1. EntryOK(dom) /\ EntryTyped(dom) BY StoredMoney
  <1>2. /\ can_update_ticket(ledger, dom, count)
        /\ allowlist' = allowlist \cup {<<d, a>> : a \in added}
        /\ ledger' = settle_ticket(ledger, dom, count)
        /\ set_domain(d, new)
    BY DEF allowlist_proof_submitters
  <1>3. added \in SUBSET Accounts /\ added \cap listed = {} OBVIOUS
  <1>4. {a \in Accounts : <<d, a>> \in allowlist'} = listed \cup added BY <1>2, <1>3
  <1>5. SameElsewhere(d, domains, allowlist, allowlist') BY <1>2 DEF SameElsewhere
  <1> HIDE DEF added
  <1>6. count \in Nat BY <1>1, <1>3, CountTyped
  <1>7. ASSUME dom.ticket_allowlist # None PROVE count = Cardinality(listed \cup added)
    <2>1. IsFiniteSet(listed) /\ ticket_count(dom) = Cardinality(listed) BY <1>7, Listed
    <2>2. IsFiniteSet(added) BY <1>3, ConfigAssumption, FS_Subset
    <2>3. listed \cap added = {} BY <1>3
    <2>4. Cardinality(listed \cap added) = 0 BY <2>3, FS_EmptySet
    <2> HIDE DEF listed
    <2>5. Cardinality(listed \cup added) = Cardinality(listed) + Cardinality(added)
                                              - Cardinality(listed \cap added)
      BY <2>1, <2>2, FS_Union
    <2>6. Cardinality(listed) \in Nat /\ Cardinality(added) \in Nat BY <2>1, <2>2, FS_CardinalityType
    <2> QED BY <2>1, <2>4, <2>5, <2>6
  <1> HIDE DEF listed
  <1>8. EntryOK(new) /\ SameQueue(dom, new)
    <2> HIDE DEF count
    <2> QED BY <1>1, <1>6, TicketOK
  <1>9. EntryTyped(new) /\ new.next = dom.next /\ new.should_publish = dom.should_publish
    BY <1>8 DEF EntryOK, SameQueue
  <1> HIDE DEF count
  <1>10. ASSUME dom.ticket_allowlist # None, allowlist_deposit(count) >= dom.ticket_allowlist.amount
         PROVE  CanHold(ledger, dom.owner, allowlist_deposit(count) - dom.ticket_allowlist.amount)
    BY <1>2, <1>10 DEF can_update_ticket, Excess
  <1>11. dom.ticket_allowlist # None =>
           count = Cardinality({a \in Accounts : <<d, a>> \in allowlist'})
    BY <1>4, <1>7
  <1>12. SameTickets(update_ticket(dom, count), new) BY DEF SameTickets
  <1> HIDE DEF new
  <1> QED BY <1>2, <1>5, <1>6, <1>9, <1>10, <1>11, <1>12, TicketPaid

LEMMA RemovePaid ==
  ASSUME LInv, NEW u \in Users, NEW d \in DOMAIN domains, NEW s \in SUBSET Accounts,
         remove_proof_submitters(u, d, s)
  PROVE  Paid
  <1> DEFINE dom == domains[d]
             removed == {a \in s : <<d, a>> \in allowlist}
             count == ticket_count(dom) - Cardinality(removed)
             allowed == allowlist \ {<<d, a>> : a \in removed}
             ticketed == update_ticket(dom, count)
             new == handle_hold_state(d, ticketed, allowed)
             listed == {a \in Accounts : <<d, a>> \in allowlist}
  <1>1. EntryOK(dom) /\ EntryTyped(dom) /\ TicketsOK(dom) /\ ledger \in Ledger BY StoredMoney
  <1>2. /\ dom.ticket_allowlist # None => count >= 0
        /\ allowlist' = allowed
        /\ ledger' = settle_ticket(ledger, dom, count)
        /\ set_domain(d, new)
    BY DEF remove_proof_submitters
  <1>3. removed \in SUBSET Accounts /\ listed \cap removed = removed OBVIOUS
  <1>4. {a \in Accounts : <<d, a>> \in allowlist'} = listed \ removed BY <1>2, <1>3
  <1>5. SameElsewhere(d, domains, allowlist, allowlist') BY <1>2 DEF SameElsewhere
  <1> HIDE DEF removed, allowed
  <1>6. Cardinality(removed) \in Nat /\ ticket_count(dom) \in Nat BY <1>1, <1>3, CountTyped
  <1>7. ASSUME dom.ticket_allowlist # None
        PROVE  /\ count \in Nat /\ count = Cardinality(listed \ removed)
               /\ allowlist_deposit(count) <= dom.ticket_allowlist.amount
               /\ dom.ticket_allowlist.amount \in Nat /\ allowlist_deposit(count) \in Nat
    <2>1. /\ IsFiniteSet(listed) /\ ticket_count(dom) = Cardinality(listed)
          /\ dom.ticket_allowlist.amount = allowlist_deposit(Cardinality(listed))
          /\ dom.ticket_allowlist.amount \in Nat /\ Cardinality(listed) \in Nat
      BY <1>7, Listed
    <2>2. count \in Nat /\ count <= Cardinality(listed) BY <1>2, <1>6, <1>7, <2>1
    <2> HIDE DEF listed
    <2>3. Cardinality(listed \ removed) = Cardinality(listed) - Cardinality(listed \cap removed)
      BY <2>1, FS_Difference
    <2>4. count = Cardinality(listed \ removed) BY <1>3, <2>1, <2>3
    <2> HIDE DEF count
    <2>5. allowlist_deposit(count) <= allowlist_deposit(Cardinality(listed))
      BY <2>1, <2>2, DepositGrows
    <2> QED BY <2>1, <2>2, <2>4, <2>5, DepositNat
  <1> HIDE DEF listed, count
  <1>8. EntryOK(ticketed) /\ SameQueue(dom, ticketed) BY <1>1, <1>7, TicketOK
  <1> HIDE DEF ticketed
  <1>9. EntryTyped(ticketed) BY <1>8 DEF EntryOK
  <1>10. SameTickets(ticketed, new) /\ new.next = ticketed.next
         /\ new.should_publish = ticketed.should_publish
    BY <1>9, HoldTickets, HoldQueue
  <1>11. EntryTyped(new) BY <1>8, HoldStateOK DEF EntryOK
  <1> HIDE DEF new
  <1>12. new.next = dom.next /\ new.should_publish = dom.should_publish BY <1>8, <1>10 DEF SameQueue
  <1>13. ASSUME dom.ticket_allowlist # None, allowlist_deposit(count) >= dom.ticket_allowlist.amount
         PROVE  CanHold(ledger, dom.owner, allowlist_deposit(count) - dom.ticket_allowlist.amount)
    <2>1. allowlist_deposit(count) - dom.ticket_allowlist.amount = 0 BY <1>7, <1>13
    <2>2. dom.owner \in Accounts BY <1>1, <1>13 DEF TicketsOK
    <2>3. ledger.free[dom.owner] \in Nat
      <3>1. "Domain" \in HoldReason BY DEF HoldReason
      <3> QED BY <1>1, <2>2, <3>1, LedgerParts
    <2>4. CanHold(ledger, dom.owner, 0) BY <2>3, LedgerAssumption DEF CanHold, Excess
    <2> QED BY <2>1, <2>4
  <1>14. dom.ticket_allowlist # None =>
           count = Cardinality({a \in Accounts : <<d, a>> \in allowlist'})
    BY <1>4, <1>7
  <1>15. SameTickets(update_ticket(dom, count), new) BY <1>10 DEF ticketed
  <1> QED BY <1>2, <1>5, <1>7, <1>11, <1>12, <1>13, <1>14, <1>15, TicketPaid

LEMMA RegisterPaid ==
  ASSUME LInv, NEW u \in Users, NEW reg \in Registrations, register_domain(u, reg)
  PROVE  Paid
  <1> DEFINE delivery_owner == IF reg.delivery_owner = None THEN u ELSE reg.delivery_owner
             queue_size == IF reg.queue_size = None THEN MaxPendingPublishQueueSize
                                                    ELSE reg.queue_size
             pays == u \in Accounts
             listed == pays /\ reg.proof_rules = "OnlyAllowlisted"
             deposit == domain_deposit(reg.aggregation_size, queue_size)
             charged == IF pays THEN Hold(ledger, "Domain", u, deposit) ELSE ledger
             c == IF listed THEN Hold(charged, "Allowlist", u, allowlist_deposit(0)) ELSE charged
             ticket == IF listed THEN [count |-> 0, amount |-> allowlist_deposit(0)] ELSE None
             paid == IF pays THEN deposit ELSE None
             delivery == [owner |-> delivery_owner, fee |-> reg.fee, owner_tip |-> reg.owner_tip]
             first == AggregationCreate(1, reg.aggregation_size)
             queue == <<>>
             new == [owner |-> u, state |-> "Ready",
                     next |-> first,
                     max_aggregation_size |-> reg.aggregation_size,
                     should_publish |-> queue,
                     publish_queue_size |-> queue_size,
                     ticket_domain |-> paid,
                     ticket_allowlist |-> ticket,
                     aggregate_rules |-> reg.aggregate_rules,
                     proof_rules |-> reg.proof_rules,
                     delivery |-> delivery]
  <1>1. IInv /\ MoneyInv(ledger, domains, allowlist) /\ ledger \in Ledger BY DEF LInv, MoneyInv
  <1>2. PICK id : id = next_domain_id OBVIOUS
  <1>3. /\ pays => CanHold(ledger, u, deposit)
        /\ listed => CanHold(charged, u, allowlist_deposit(0))
        /\ set_domain(id, new)
        /\ ledger' = c
        /\ allowlist' = allowlist
    BY <1>2 DEF register_domain
  <1>4. IInv' BY <1>1, RegisterStep
  <1>5. deposit \in Nat
    <2>1. queue_size \in Nat /\ reg.aggregation_size \in Nat BY InputAssumption, ConfigAssumption
    <2> HIDE DEF queue_size
    <2>2. compute_encoded_size(reg.aggregation_size, queue_size) \in Nat
      BY <2>1 DEF compute_encoded_size
    <2> QED BY <2>2, InputAssumption DEF domain_deposit
  <1>6. first.statements = <<>> /\ DOMAIN queue = {} BY DEF AggregationCreate
  <1> HIDE DEF delivery, queue_size, first, queue, deposit
  <1>7. /\ new.owner = u /\ new.next = first /\ new.should_publish = queue
        /\ new.ticket_domain = paid /\ new.ticket_allowlist = ticket
        /\ new.proof_rules = reg.proof_rules
    <2> HIDE DEF paid, ticket
    <2> QED OBVIOUS
  <1> HIDE DEF new
  <1>8. domains' = WithEntry(domains, id, new) BY <1>3 DEF set_domain, WithEntry
  <1>9. EntryTyped(new)
    <2>1. id \in DOMAIN domains' /\ domains'[id] = new BY <1>8 DEF WithEntry
    <2> QED BY <1>4, <2>1 DEF IInv, EntriesOK, EntryOK
  <1>10. id \notin DOMAIN domains /\ id \in DomainId
    <2>1. id \in DomainId BY <1>1, <1>2 DEF IInv, TypeOK
    <2>2. id \in DOMAIN domains => id < id BY <1>1, <1>2 DEF IInv, IdsHandedOut
    <2>3. id \in Int BY <2>1 DEF DomainId
    <2> QED BY <2>1, <2>2, <2>3
  <1>11. Counted(id, new, allowlist)
    <2>1. {a \in Accounts : <<id, a>> \in allowlist} = {} BY <1>1, <1>10 DEF IInv, AllowlistOwned
    <2>2. Cardinality({a \in Accounts : <<id, a>> \in allowlist}) = 0 BY <2>1, FS_EmptySet
    <2>3. new.ticket_allowlist # None => new.ticket_allowlist.count = 0 BY <1>7
    <2> QED BY <2>2, <2>3 DEF Counted
  <1>12. /\ new.next.statements = <<>> /\ DOMAIN new.should_publish = {}
         /\ new.ticket_domain = (IF u \in Accounts THEN deposit ELSE None)
         /\ new.ticket_allowlist = (IF u \in Accounts /\ new.proof_rules = "OnlyAllowlisted"
                                    THEN [count |-> 0, amount |-> allowlist_deposit(0)] ELSE None)
         /\ u \in Accounts => CanHold(ledger, u, deposit)
         /\ charged = (IF u \in Accounts THEN Hold(ledger, "Domain", u, deposit) ELSE ledger)
         /\ u \in Accounts /\ new.proof_rules = "OnlyAllowlisted" =>
              CanHold(charged, u, allowlist_deposit(0))
         /\ c = (IF u \in Accounts /\ new.proof_rules = "OnlyAllowlisted"
                 THEN Hold(charged, "Allowlist", u, allowlist_deposit(0)) ELSE charged)
    BY <1>3, <1>6, <1>7
  <1> HIDE DEF c, charged
  <1>13. ASSUME NEW x \in Accounts, NEW q \in HoldReason
         PROVE  c \in Ledger /\ TicketsOK(new) /\ c.held[x][q] = ledger.held[x][q] + Due(new, x, q)
    <2>1. c \in Ledger BY <1>1, <1>5, <1>7, <1>12, RegisterMoney
    <2>2. TicketsOK(new) BY <1>1, <1>5, <1>7, <1>12, RegisterMoney
    <2>3. c.held[x][q] = ledger.held[x][q] + Due(new, x, q)
      BY <1>1, <1>5, <1>7, <1>12, RegisterMoney
    <2> QED BY <2>1, <2>2, <2>3
  <1>14. c \in Ledger /\ TicketsOK(new)
    <2>1. "Domain" \in HoldReason BY DEF HoldReason
    <2>2. \E x \in Accounts : TRUE
      <3>1. new \in DomainEntry(DOMAIN new.should_publish) BY <1>9, EntryFields
      <3>2. new.delivery.owner \in Accounts BY <3>1 DEF DomainEntry
      <3> QED BY <3>2
    <2> QED BY <1>13, <2>1, <2>2
  <1>15. MoneyStep(ledger, c, domains, WithEntry(domains, id, new), allowlist)
    BY <1>1, <1>9, <1>10, <1>11, <1>13, <1>14, AddEntry
  <1> QED BY <1>3, <1>8, <1>15 DEF Paid

LEMMA UnregisterPaid ==
  ASSUME LInv, NEW u \in Users, NEW d \in DOMAIN domains, unregister_domain(u, d)
  PROVE  Paid
  <1> DEFINE dom == domains[d]
             c == drop_tickets(ledger, dom)
  <1>1. IInv /\ MoneyInv(ledger, domains, allowlist) BY DEF LInv
  <1>2. EntryTyped(dom) /\ TicketsOK(dom) /\ ledger \in Ledger BY StoredMoney
  <1>3. /\ dom.state = "Removable" /\ ledger' = c /\ allowlist' = allowlist
        /\ domains' = Without(domains, d)
    BY DEF unregister_domain, Without
  <1>4. DOMAIN dom.should_publish = {} /\ dom.next.statements = <<>>
    BY <1>1, <1>3 DEF IInv, HoldStateExact, Drained
  <1>5. ASSUME NEW x \in Accounts, NEW q \in HoldReason
        PROVE  c \in Ledger /\ c.held[x][q] + Due(dom, x, q) = ledger.held[x][q]
    <2>1. q \notin {"Domain", "Allowlist"} => Due(dom, x, q) = 0
      <3>1. Owed(dom.next, x, q) = 0 BY <1>4, OwedNothing
      <3>2. DOMAIN QueueShare(dom, x, q) = {} BY <1>4 DEF QueueShare
      <3>3. SumFunction(QueueShare(dom, x, q)) = 0 BY <3>2, SumEmpty DEF SumFunction
      <3> QED BY <3>1, <3>3 DEF Due, QueueOwed
    <2>2. "Domain" \in HoldReason /\ "Allowlist" \in HoldReason BY DEF HoldReason
    <2>3. \A a \in Accounts : /\ ledger.held[a]["Domain"] >= Due(dom, a, "Domain")
                              /\ ledger.held[a]["Allowlist"] >= Due(dom, a, "Allowlist")
      BY <2>2, DueCovered
    <2> HIDE DEF dom
    <2>4. c \in Ledger BY <1>2, <2>1, <2>3, DropMoney
    <2>5. c.held[x][q] + Due(dom, x, q) = ledger.held[x][q] BY <1>2, <2>1, <2>3, DropMoney
    <2> QED BY <2>4, <2>5
  <1>6. c \in Ledger
    <2>1. "Domain" \in HoldReason BY DEF HoldReason
    <2>2. \E x \in Accounts : TRUE
      <3>1. dom \in DomainEntry(DOMAIN dom.should_publish) BY <1>2, EntryFields
      <3>2. dom.delivery.owner \in Accounts BY <3>1 DEF DomainEntry
      <3> QED BY <3>2
    <2> QED BY <1>5, <2>1, <2>2
  <1> HIDE DEF c
  <1>7. MoneyStep(ledger, c, domains, Without(domains, d), allowlist)
    BY <1>1, <1>5, <1>6, RemoveEntry
  <1> QED BY <1>3, <1>7 DEF Paid

(* Steps that change at most the locks. *)
LEMMA QuietPaid ==
  ASSUME LInv, UNCHANGED <<domains, allowlist>>, ledger' \in Ledger,
         ledger'.held = ledger.held
  PROVE  Paid
  <1>1. MoneyInv(ledger, domains, allowlist) BY DEF LInv
  <1>2. ledger \in Ledger /\ Stored(domains) BY <1>1 DEF MoneyInv
  <1>3. domains' = domains /\ allowlist' = allowlist OBVIOUS
  <1>4. ASSUME NEW c \in Ledger, c.held = ledger.held
        PROVE  MoneyStep(ledger, c, domains, domains, allowlist)
    <2>1. ASSUME NEW a \in Accounts, NEW q \in HoldReason
          PROVE  Balanced(ledger, c, TotalDue(domains, a, q), TotalDue(domains, a, q), a, q)
      <3>1. ledger.held[a][q] \in Nat BY <1>2, LedgerParts
      <3>2. TotalDue(domains, a, q) \in Nat BY <1>2, TotalNat
      <3>3. c.held[a][q] = ledger.held[a][q] BY <1>4
      <3> QED BY <3>1, <3>2, <3>3 DEF Balanced
    <2> QED BY <1>1, <2>1 DEF MoneyStep, MoneyInv
  <1> QED BY <1>3, <1>4 DEF Paid

LEMMA StepPaid == LInv /\ [Next]_vars => Paid
  <1> SUFFICES ASSUME LInv, [Next]_vars PROVE Paid OBVIOUS
  <1>0. ledger \in Ledger BY DEF LInv, MoneyInv
  <1>1. CASE \E u \in Users, reg \in Registrations : register_domain(u, reg)
    BY <1>1, RegisterPaid
  <1>2. ASSUME NEW d \in DOMAIN domains,
               \/ \E a \in Accounts, s \in Statements, e \in CallFees :
                    on_proof_verified(a, d, s, e)
               \/ \E u \in Users : \E id \in PendingIds(domains[d]) : aggregate(u, d, id)
               \/ \E u \in Users : hold_domain(u, d)
               \/ \E u \in Users : unregister_domain(u, d)
               \/ \E u \in Users, del \in Deliveries : set_total_delivery_fee(u, d, del)
               \/ \E u \in Users, s \in SUBSET Accounts : allowlist_proof_submitters(u, d, s)
               \/ \E u \in Users, s \in SUBSET Accounts : remove_proof_submitters(u, d, s)
        PROVE  Paid
    BY <1>2, SubmitPaid, AggregatePaid, HoldPaid, UnregisterPaid, FeePaid, AllowPaid, RemovePaid
  <1>3. CASE on_initialize BY <1>0, <1>3, QuietPaid DEF on_initialize
  <1>4. ASSUME NEW a \in Accounts, NEW n \in FreezeAmounts, set_freeze(a, n) PROVE Paid
    <2>1. n \in Nat BY InputAssumption
    <2> DEFINE c == [ledger EXCEPT !.frozen[a] = n]
               fr == [ledger.frozen EXCEPT ![a] = n]
    <2>2. fr \in [Accounts -> Nat] BY <1>0, <2>1 DEF Ledger
    <2>3. c = [ledger EXCEPT !.frozen = fr] BY <1>0 DEF Ledger
    <2>4. c \in Ledger /\ c.held = ledger.held
      <3> HIDE DEF fr, c
      <3> QED BY <1>0, <2>2, <2>3 DEF Ledger
    <2>5. ledger' = c /\ UNCHANGED <<domains, allowlist>> BY <1>4 DEF set_freeze
    <2> HIDE DEF c
    <2> QED BY <2>4, <2>5, QuietPaid
  <1>5. CASE UNCHANGED vars BY <1>0, <1>5, QuietPaid DEF vars
  <1> QED BY <1>1, <1>2, <1>3, <1>4, <1>5 DEF Next

LEMMA InitMoney == Init => LInv
  <1> SUFFICES ASSUME Init PROVE LInv OBVIOUS
  <1>1. IInv BY InitInv
  <1>2. DOMAIN domains = {} BY DEF Init
  <1> DEFINE free == Endowment
             held == [a \in Accounts |-> [r \in HoldReason |-> 0]]
             frozen == [a \in Accounts |-> 0]
  <1>3. ledger = [free |-> free, held |-> held, frozen |-> frozen] BY DEF Init
  <1>4. /\ free \in [Accounts -> Nat] /\ held \in [Accounts -> [HoldReason -> Nat]]
        /\ frozen \in [Accounts -> Nat]
        /\ \A a \in Accounts, q \in HoldReason : held[a][q] = 0
    BY ConfigAssumption
  <1> HIDE DEF free, held, frozen
  <1>5. ledger \in Ledger /\ ledger.held = held BY <1>3, <1>4 DEF Ledger
  <1>6. Stored(domains) BY <1>2, FS_EmptySet DEF Stored
  <1>7. \A a \in Accounts, q \in HoldReason : TotalDue(domains, a, q) = 0
    <2> SUFFICES ASSUME NEW a \in Accounts, NEW q \in HoldReason PROVE TotalDue(domains, a, q) = 0
      OBVIOUS
    <2>1. DOMAIN DueOf(domains, a, q) = {} BY <1>2 DEF DueOf
    <2> QED BY <2>1, SumEmpty DEF TotalDue, SumFunction
  <1>8. Funded(ledger, domains) BY <1>4, <1>5, <1>7 DEF Funded
  <1>9. \A d \in DOMAIN domains : Counted(d, domains[d], allowlist) BY <1>2
  <1> QED BY <1>1, <1>5, <1>6, <1>8, <1>9 DEF LInv, MoneyInv

(* The holds follow what is owed in every step. *)
LEMMA MoneyInvariance == Spec => []LInv
  <1>1. LInv /\ [Next]_vars => LInv'
    <2> SUFFICES ASSUME LInv, [Next]_vars PROVE LInv' OBVIOUS
    <2>1. IInv' BY StepInv DEF LInv
    <2>2. Paid BY StepPaid
    <2>3. ASSUME NEW c, NEW doms, NEW allowed, MoneyStep(ledger, c, domains, doms, allowed)
          PROVE  MoneyInv(c, doms, allowed)
      <3>1. MoneyInv(ledger, domains, allowlist) BY DEF LInv
      <3> QED BY <2>3, <3>1, MoneyKept
    <2>4. MoneyInv(ledger, domains, allowlist)' BY <2>2, <2>3 DEF Paid
    <2> QED BY <2>1, <2>4 DEF LInv
  <1> QED BY <1>1, InitMoney, PTL DEF Spec

(* What is owed, in the terms of the properties. *)
LEMMA TicketsTotal ==
  ASSUME NEW doms, NEW a
  PROVE  /\ SumFunction([d \in DOMAIN doms |-> DomainTicket(doms[d], a)])
              = TotalDue(doms, a, "Domain")
         /\ SumFunction([d \in DOMAIN doms |-> AllowlistTicket(doms[d], a)])
              = TotalDue(doms, a, "Allowlist")
  BY DEF TotalDue, DueOf, Due

LEMMA ReservesOwed ==
  ASSUME NEW agg, NEW a
  PROVE  /\ SumReserves(agg, a, "aggregate") = Owed(agg, a, "Aggregation")
         /\ SumReserves(agg, a, "delivery") = Owed(agg, a, "Delivery")
  <1> DEFINE l == agg.statements
             f == [i \in DOMAIN l |-> IF l[i].account = a THEN l[i].reserve["aggregate"] ELSE 0]
             g == [i \in DOMAIN l |-> IF l[i].account = a THEN l[i].reserve["delivery"] ELSE 0]
  <1>1. f = Share(l, a, "Aggregation") BY DEF Share, Part
  <1>2. g = Share(l, a, "Delivery") BY DEF Share, Part
  <1>3. SumReserves(agg, a, "aggregate") = SumFunction(f) BY DEF SumReserves
  <1>4. SumReserves(agg, a, "delivery") = SumFunction(g) BY DEF SumReserves
  <1> HIDE DEF f, g
  <1> QED BY <1>1, <1>2, <1>3, <1>4 DEF Owed

LEMMA DomainReserves ==
  ASSUME NEW dom, NEW a
  PROVE  /\ DomainReserve(dom, a, "aggregate") = Due(dom, a, "Aggregation")
         /\ DomainReserve(dom, a, "delivery") = Due(dom, a, "Delivery")
  <1>1. [i \in DOMAIN dom.should_publish |-> SumReserves(dom.should_publish[i], a, "aggregate")]
          = QueueShare(dom, a, "Aggregation")
    BY ReservesOwed DEF QueueShare
  <1>2. [i \in DOMAIN dom.should_publish |-> SumReserves(dom.should_publish[i], a, "delivery")]
          = QueueShare(dom, a, "Delivery")
    BY ReservesOwed DEF QueueShare
  <1>3. DomainReserve(dom, a, "aggregate") = QueueOwed(dom, a, "Aggregation")
    BY <1>1, ReservesOwed DEF DomainReserve, QueueOwed
  <1>4. DomainReserve(dom, a, "delivery") = QueueOwed(dom, a, "Delivery")
    BY <1>2, ReservesOwed DEF DomainReserve, QueueOwed
  <1> QED BY <1>3, <1>4 DEF Due

LEMMA ReservesTotal ==
  ASSUME NEW doms, NEW a
  PROVE  /\ SumFunction([d \in DOMAIN doms |-> DomainReserve(doms[d], a, "aggregate")])
              = TotalDue(doms, a, "Aggregation")
         /\ SumFunction([d \in DOMAIN doms |-> DomainReserve(doms[d], a, "delivery")])
              = TotalDue(doms, a, "Delivery")
  <1>1. [d \in DOMAIN doms |-> DomainReserve(doms[d], a, "aggregate")] = DueOf(doms, a, "Aggregation")
    BY DomainReserves DEF DueOf
  <1>2. [d \in DOMAIN doms |-> DomainReserve(doms[d], a, "delivery")] = DueOf(doms, a, "Delivery")
    BY DomainReserves DEF DueOf
  <1> QED BY <1>1, <1>2 DEF TotalDue

(* The deposits on hold are exactly those of the registered domains and of *)
(* their allowlists, and each ticket counts the entries of its list.       *)
THEOREM StorageIsAccounted == Spec => []StorageAccounted
  <1>1. LInv => StorageAccounted
    <2> SUFFICES ASSUME LInv PROVE StorageAccounted OBVIOUS
    <2>1. IInv /\ MoneyInv(ledger, domains, allowlist) BY DEF LInv
    <2>2. DepositsExact
      <3> SUFFICES ASSUME NEW a \in Accounts
                   PROVE  /\ ledger.held[a]["Domain"] = TotalDue(domains, a, "Domain")
                          /\ ledger.held[a]["Allowlist"] = TotalDue(domains, a, "Allowlist")
        BY TicketsTotal DEF DepositsExact
      <3>1. "Domain" \in HoldReason /\ "Allowlist" \in HoldReason BY DEF HoldReason
      <3> QED BY <2>1, <3>1 DEF MoneyInv, Funded
    <2>3. ASSUME NEW e \in allowlist
          PROVE  e[1] \in DOMAIN domains /\ domains[e[1]].proof_rules = "OnlyAllowlisted"
      <3>1. allowlist \subseteq DomainId \X Accounts BY <2>1 DEF IInv, TypeOK
      <3>2. e = <<e[1], e[2]>> /\ e[1] \in DomainId /\ e[2] \in Accounts BY <3>1
      <3> QED BY <2>1, <3>2 DEF IInv, AllowlistOwned
    <2>4. AllowlistAccounted BY <2>1, <2>3 DEF AllowlistAccounted, MoneyInv, Counted
    <2> QED BY <2>2, <2>4 DEF StorageAccounted
  <1> QED BY <1>1, MoneyInvariance, PTL

(* What the waiting statements of an account reserved is on hold, whatever *)
(* was published, transferred, released or locked in between.              *)
THEOREM ReservesStayCovered == Spec => []ReservesCovered
  <1>1. LInv => ReservesCovered
    <2> SUFFICES ASSUME LInv, NEW a \in Accounts
                 PROVE  /\ ledger.held[a]["Aggregation"] >= TotalDue(domains, a, "Aggregation")
                        /\ ledger.held[a]["Delivery"] >= TotalDue(domains, a, "Delivery")
      BY ReservesTotal DEF ReservesCovered, PendingReserve
    <2>1. MoneyInv(ledger, domains, allowlist) BY DEF LInv
    <2>2. "Aggregation" \in HoldReason /\ "Delivery" \in HoldReason BY DEF HoldReason
    <2> QED BY <2>1, <2>2 DEF MoneyInv, Funded
  <1> QED BY <1>1, MoneyInvariance, PTL

(* Every step settles what it took from the queues, no more and no less,   *)
(* for an account whose locks do not exceed its free balance.              *)
THEOREM SettlementsInFull == Spec => SettledInFull
  <1> DEFINE A == \A a \in Accounts : Surplus(a)' = Surplus(a) \/ ledger.frozen[a] > ledger.free[a]
  <1>1. LInv /\ [Next]_vars => A
    <2> SUFFICES ASSUME LInv, [Next]_vars, NEW a \in Accounts
                 PROVE  Surplus(a)' = Surplus(a) \/ ledger.frozen[a] > ledger.free[a]
      OBVIOUS
    <2>1. ledger \in Ledger /\ Stored(domains) BY DEF LInv, MoneyInv
    <2>2. Paid BY StepPaid
    <2>3. "Aggregation" \in HoldReason /\ "Delivery" \in HoldReason BY DEF HoldReason
    <2>4. ledger.frozen[a] \in Nat /\ ledger.free[a] \in Nat BY <2>1, <2>3, LedgerParts
    <2>5. SUFFICES ASSUME ledger.frozen[a] <= ledger.free[a] PROVE Surplus(a)' = Surplus(a)
      BY <2>4
    <2>6. ASSUME NEW c, NEW doms, NEW allowed, MoneyStep(ledger, c, domains, doms, allowed),
                 NEW q \in HoldReason
          PROVE  c.held[a][q] - TotalDue(doms, a, q) = ledger.held[a][q] - TotalDue(domains, a, q)
      <3> DEFINE s == TotalDue(domains, a, q)
                 t == TotalDue(doms, a, q)
                 g == ledger.held[a][q]
                 h == c.held[a][q]
      <3>1. c \in Ledger /\ Stored(doms) /\ Balanced(ledger, c, s, t, a, q) BY <2>6 DEF MoneyStep
      <3>2. s \in Nat /\ t \in Nat BY <2>1, <3>1, TotalNat
      <3>3. g \in Nat /\ h \in Nat BY <2>1, <3>1, LedgerParts
      <3>4. h + s = g + t BY <2>5, <3>1 DEF Balanced
      <3> HIDE DEF s, t, g, h
      <3>5. h - t = g - s BY <3>2, <3>3, <3>4
      <3> QED BY <3>5 DEF s, t, g, h
    <2>7. /\ ledger'.held[a]["Aggregation"] - TotalDue(domains', a, "Aggregation")
               = ledger.held[a]["Aggregation"] - TotalDue(domains, a, "Aggregation")
          /\ ledger'.held[a]["Delivery"] - TotalDue(domains', a, "Delivery")
               = ledger.held[a]["Delivery"] - TotalDue(domains, a, "Delivery")
      BY <2>2, <2>3, <2>6 DEF Paid
    <2>8. /\ PendingReserve(a, "aggregate") = TotalDue(domains, a, "Aggregation")
          /\ PendingReserve(a, "delivery") = TotalDue(domains, a, "Delivery")
      BY ReservesTotal DEF PendingReserve
    <2>9. /\ PendingReserve(a, "aggregate")' = TotalDue(domains', a, "Aggregation")
          /\ PendingReserve(a, "delivery")' = TotalDue(domains', a, "Delivery")
      BY ReservesTotal DEF PendingReserve
    <2> QED BY <2>7, <2>8, <2>9 DEF Surplus
  <1>2. LInv /\ [Next]_vars => [A]_vars BY <1>1
  <1>3. Spec => [][A]_vars
    <2> HIDE DEF A
    <2> QED BY <1>2, MoneyInvariance, PTL DEF Spec
  <1> QED BY <1>3 DEF SettledInFull
=============================================================================
