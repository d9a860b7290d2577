--------------------------- MODULE NodeFeedProofs ---------------------------
(***************************************************************************)
(* What the node client and the caches over it promise, for any number of  *)
(* readers, blocks, sessions and registrations: the invariants that        *)
(* the run of NodeFeed checks on two readers and one block.                *)
(***************************************************************************)
EXTENDS NodeFeed, TLAPS

-----------------------------------------------------------------------------
(* Types *)

At == {"idle", "looking", "asking", "asked", "answered"}

LEMMA SessionTypes ==
    ASSUME TypeOK, Session
    PROVE  TypeOK'
<1> USE NodeFeedAssumption DEF NodeFeedAssumption, Cache, Block, Value, Item,
        At
<1>1. CASE BlockMined
  <2>1. /\ BlockItem(tip') \in Item
        /\ tip' \in Value
    BY <1>1 DEF BlockMined, BlockItem, TypeOK
  <2>2. wire' \in Seq(Item)
    <3> HIDE DEF Item
    <3>1. CASE registered
      BY <1>1, <2>1, <3>1 DEF BlockMined, TypeOK
    <3>2. CASE ~registered
      BY <1>1, <3>2 DEF BlockMined, TypeOK
    <3> QED
      BY <3>1, <3>2
  <2> QED
    BY <1>1, <2>1, <2>2 DEF BlockMined, joinVars, blockVars, cacheVars,
       readVars, history, TypeOK
<1>2. CASE Drop
  <2>1. at' \in [Reader -> At]
    BY <1>2 DEF Drop, TypeOK
  <2>2. wire' \in Seq(Item)
    <3> HIDE DEF Item
    <3> QED
      BY <1>2 DEF Drop
  <2>3. /\ UNCHANGED <<tip, joining, ready, last, handler, announced, mutex,
                       cache, age, wants, got, missed, raced>>
    BY <1>2 DEF Drop, joinVars, blockVars, cacheVars, history
  <2>4. /\ up' \in BOOLEAN /\ registered' \in BOOLEAN
        /\ registered' => up'
    BY <1>2 DEF Drop
  <2> HIDE DEF Item
  <2> QED
    BY <2>1, <2>2, <2>3, <2>4, Zenon DEF TypeOK
<1>3. CASE Connect
  BY <1>3 DEF Connect, blockVars, cacheVars, readVars, history, TypeOK
<1>4. ASSUME NEW answer \in BOOLEAN, Joins(answer)
      PROVE  TypeOK'
  BY <1>4 DEF Joins, blockVars, cacheVars, readVars, history, TypeOK
<1> QED
  BY <1>1, <1>2, <1>3, <1>4 DEF Session, Registers, RegistrationFails

LEMMA CallbackTypes ==
    ASSUME TypeOK, Callback
    PROVE  TypeOK'
<1> USE NodeFeedAssumption DEF NodeFeedAssumption, Cache, Block, Value, Item,
        At
<1>1. CASE TakeBlock
  <2>1. /\ Head(wire) \in Item
        /\ wire' \in Seq(Item)
    <3> HIDE DEF Item
    <3> QED
      BY <1>1 DEF TakeBlock, TypeOK
  <2>2. Head(wire).height \in Block
    BY <1>1, <2>1 DEF TakeBlock
  <2>3. last' \in Value /\ handler' \in Cache \cup {"idle", "hub"}
    BY <1>1, <2>2 DEF TakeBlock, TypeOK
  <2> HIDE DEF Item
  <2> QED
    BY <1>1, <2>1, <2>3 DEF TakeBlock, nodeVars, joinVars, cacheVars, readVars,
       history, TypeOK
<1>2. ASSUME NEW c \in Cache, NEW next \in {"interval", "hub"},
             Clears(c, next)
      PROVE  TypeOK'
  <2>1. missed' \in [Reader -> BOOLEAN]
    BY <1>2, Zenon DEF Clears, TypeOK
  <2>2. raced' \in [Cache -> BOOLEAN]
    BY <1>2, Zenon DEF Clears, TypeOK
  <2>3. /\ cache' \in [Cache -> Value \cup {None, Fallback}]
        /\ handler' \in Cache \cup {"idle", "hub"}
    BY <1>2 DEF Clears, TypeOK
  <2>4. UNCHANGED <<tip, up, registered, wire, joining, ready, last, announced,
                    mutex, age, at, wants, got>>
    BY <1>2 DEF Clears, nodeVars, joinVars, readVars
  <2> HIDE DEF Item, Cache, Block, Value, At
  <2>5. /\ tip' \in Value /\ up' \in BOOLEAN /\ registered' \in BOOLEAN
        /\ registered' => up'
        /\ wire' \in Seq(Item)
        /\ joining' \in 0 .. MaxJoins /\ ready' \in BOOLEAN /\ last' \in Value
    BY <2>4 DEF TypeOK
  <2>6. /\ announced' \in [Block -> Nat]
        /\ mutex' \in [Cache -> Reader \cup {Free}]
        /\ age' \in [Cache -> 0 .. TTL]
        /\ at' \in [Reader -> At]
        /\ wants' \in [Reader -> Cache \cup {None}]
        /\ got' \in [Reader -> Value \cup {None}]
    BY <2>4 DEF TypeOK, At
  <2> QED
    BY <2>1, <2>2, <2>3, <2>5, <2>6, Zenon DEF TypeOK, At
<1>3. CASE TellHub
  <2>1. announced' \in [Block -> Nat]
    <3>1. /\ announced \in [Block -> Nat]
          /\ announced' = [announced EXCEPT ![last] = @ + 1]
      BY <1>3 DEF TellHub, TypeOK
    <3> HIDE DEF Item, Block
    <3>2. ASSUME NEW b \in Block
          PROVE  announced'[b] \in Nat
      <4>1. announced[b] \in Nat /\ announced[b] + 1 \in Nat
        BY <3>1
      <4>2. announced'[b] = announced[b] \/ announced'[b] = announced[b] + 1
        BY <3>1, Zenon
      <4> QED
        BY <4>1, <4>2
    <3>3. announced' = [b \in Block |-> announced'[b]]
      BY <3>1, Zenon
    <3> QED
      BY <3>2, <3>3, Zenon
  <2> QED
    BY <1>3, <2>1 DEF TellHub, nodeVars, joinVars, cacheVars, readVars, history,
       TypeOK
<1>4. CASE TakeAnswer
  <2>1. /\ Head(wire) \in Item
        /\ wire' \in Seq(Item)
    <3> HIDE DEF Item
    <3> QED
      BY <1>4 DEF TakeAnswer, TypeOK
  <2>2. /\ Head(wire).reader \in Reader
        /\ Head(wire).height \in Value \cup {None}
    BY <1>4, <2>1 DEF TakeAnswer
  <2> QED
    BY <1>4, <2>1, <2>2 DEF TakeAnswer, nodeVars, joinVars, blockVars,
       cacheVars, history, TypeOK
<1> QED
  BY <1>1, <1>2, <1>3, <1>4 DEF Callback, ClearTotals, ResetInterval

LEMMA ReadTypes ==
    ASSUME TypeOK, NEW r \in Reader, Read(r)
    PROVE  TypeOK'
<1> USE NodeFeedAssumption DEF NodeFeedAssumption, Cache, Block, Value, At
<1>1. CASE Look(r)
  BY <1>1 DEF Look, Locks, nodeVars, joinVars, blockVars, TypeOK
<1>2. CASE Served(r)
  BY <1>2 DEF Served, nodeVars, joinVars, blockVars, history, TypeOK
<1>3. CASE Ask(r)
  <2>1. missed' \in [Reader -> BOOLEAN]
    BY <1>3 DEF Ask, Misses, TypeOK
  <2>2. at' \in [Reader -> At]
    BY <1>3 DEF Ask, Misses, TypeOK
  <2> QED
    BY <1>3, <2>1, <2>2 DEF Ask, Misses, nodeVars, joinVars, blockVars, TypeOK
<1>4. ASSUME NEW value \in Value \cup {None}, NodeAnswers(r, value)
      PROVE  TypeOK'
  <2>1. [reader |-> r, height |-> value] \in Item
    BY <1>4 DEF Item
  <2>2. wire' \in Seq(Item)
    BY <1>4, <2>1 DEF NodeAnswers, TypeOK
  <2> QED
    BY <1>4, <2>2 DEF NodeAnswers, nodeVars, joinVars, blockVars, cacheVars,
       history, TypeOK
<1>5. CASE Stores(r)
  <2>1. raced' \in [Cache -> BOOLEAN]
    BY <1>5 DEF Stores, TypeOK
  <2>2. missed' \in [Reader -> BOOLEAN]
    BY <1>5 DEF Stores, TypeOK
  <2>3. /\ cache' \in [Cache -> Value \cup {None, Fallback}]
        /\ age' \in [Cache -> 0 .. TTL]
    BY <1>5 DEF Stores, Result, TypeOK
  <2> QED
    BY <1>5, <2>1, <2>2, <2>3 DEF Stores, nodeVars, joinVars, blockVars, TypeOK
<1> QED
  BY <1>1, <1>2, <1>3, <1>4, <1>5 DEF Read, Answers, AnswerFails, TypeOK

LEMMA TickTypes ==
    ASSUME TypeOK, Tick
    PROVE  TypeOK'
<1>1. age' \in [Cache -> 0 .. TTL]
  BY NodeFeedAssumption DEF NodeFeedAssumption, Tick, TypeOK
<1> QED
  BY <1>1 DEF Tick, nodeVars, joinVars, blockVars, readVars, history, TypeOK

\* All variables keep their types: in particular there is no registration
\* without a session, and the hub is told of no block that does not exist.
THEOREM NodeFeedTypeCorrect == Spec => []TypeOK
<1>1. Init => TypeOK
  <2> SUFFICES ASSUME Init PROVE TypeOK
    OBVIOUS
  <2> USE NodeFeedAssumption DEF NodeFeedAssumption, Init, Cache, Block, Value
  <2>1. missed \in [Reader -> BOOLEAN] /\ raced \in [Cache -> BOOLEAN]
    BY Zenon
  <2>2. /\ wants \in [Reader -> Cache \cup {None}]
        /\ got \in [Reader -> Value \cup {None}]
        /\ cache \in [Cache -> Value \cup {None, Fallback}]
        /\ mutex \in [Cache -> Reader \cup {Free}]
    BY Zenon
  <2>3. /\ at \in [Reader -> At]
        /\ handler \in Cache \cup {"idle", "hub"}
    BY Zenon DEF At
  <2>4. /\ announced \in [Block -> Nat]
        /\ age \in [Cache -> 0 .. TTL]
        /\ tip \in Value /\ last \in Value /\ joining \in 0 .. MaxJoins
        /\ wire \in Seq(Item)
    OBVIOUS
  <2> QED
    BY <2>1, <2>2, <2>3, <2>4 DEF TypeOK, At
<1>2. TypeOK /\ [Next]_vars => TypeOK'
  <2> SUFFICES ASSUME TypeOK, [Next]_vars
               PROVE  TypeOK'
    OBVIOUS
  <2>1. CASE UNCHANGED vars
    BY <2>1 DEF vars, nodeVars, joinVars, blockVars, cacheVars, readVars,
       history, TypeOK
  <2> QED
    BY <2>1, SessionTypes, CallbackTypes, ReadTypes, TickTypes DEF Next
<1> QED
  BY <1>1, <1>2, PTL DEF Spec

-----------------------------------------------------------------------------
(* Sequences *)

LEMMA TailFacts ==
    ASSUME NEW S, NEW s \in Seq(S), s # <<>>
    PROVE  /\ Head(s) = s[1] /\ 1 \in 1 .. Len(s)
           /\ Len(Tail(s)) = Len(s) - 1
           /\ \A i \in 1 .. Len(Tail(s)) :
                 i + 1 \in 1 .. Len(s) /\ Tail(s)[i] = s[i + 1]
OBVIOUS

LEMMA PairFacts ==
    ASSUME NEW S, NEW s \in Seq(S), NEW a \in S
    PROVE  /\ Len(s \o <<a, a>>) = Len(s) + 2
           /\ \A i \in 1 .. Len(s \o <<a, a>>) :
                 IF i \in 1 .. Len(s) THEN (s \o <<a, a>>)[i] = s[i]
                                      ELSE (s \o <<a, a>>)[i] = a
OBVIOUS

LEMMA AppendFacts ==
    ASSUME NEW S, NEW s \in Seq(S), NEW a \in S
    PROVE  /\ Len(Append(s, a)) = Len(s) + 1
           /\ \A i \in 1 .. Len(Append(s, a)) :
                 IF i \in 1 .. Len(s) THEN Append(s, a)[i] = s[i]
                                      ELSE Append(s, a)[i] = a
OBVIOUS

-----------------------------------------------------------------------------
(* Every block is announced once *)

IsBlock(i) == i \in 1 .. Len(wire) /\ wire[i].reader = None

\* Blocks arrive in their order, none older than the last one handled.
InOrder ==
    /\ last <= tip
    /\ \A i \in 1 .. Len(wire) : IsBlock(i) =>
           /\ wire[i].height \in Block
           /\ last <= wire[i].height /\ wire[i].height <= tip
           /\ \A j \in 1 .. Len(wire) :
                 IsBlock(j) /\ i < j => wire[i].height <= wire[j].height

\* The hub has heard of no block later than the last, and of the last only
\* when its callback is over.
HubHeard ==
    /\ \A b \in Block : announced[b] = 0 \/ (announced[b] = 1 /\ b <= last)
    /\ handler # "idle" => last \in Block /\ announced[last] = 0

LEMMA OnceInit ==
    ASSUME Init
    PROVE  InOrder /\ HubHeard
BY NodeFeedAssumption
   DEF Init, InOrder, HubHeard, IsBlock, NodeFeedAssumption, Block

\* Two more announcements are the latest blocks on the wire.
LEMMA MinedKeepsOrder ==
    ASSUME TypeOK, InOrder, HubHeard, BlockMined
    PROVE  InOrder' /\ HubHeard'
<1> USE NodeFeedAssumption DEF NodeFeedAssumption
<1>1. /\ tip' = tip + 1 /\ tip' \in Block /\ tip \in Nat /\ last \in Nat
      /\ last' = last /\ last <= tip
      /\ UNCHANGED <<handler, announced>>
  BY DEF BlockMined, blockVars, TypeOK, InOrder, Value, Block
<1>2. HubHeard'
  BY <1>1 DEF HubHeard
<1>3. CASE ~registered
  <2>1. wire' = wire
    BY <1>3 DEF BlockMined
  <2> QED
    BY <1>1, <1>2, <2>1 DEF InOrder, IsBlock, Block
<1>4. CASE registered
  <2> DEFINE pair == BlockItem(tip')
  <2>1. wire \in Seq(Item) /\ wire' = wire \o <<pair, pair>>
    BY <1>4 DEF BlockMined, TypeOK
  <2>2. pair \in Item /\ pair.reader = None /\ pair.height = tip'
    BY <1>1 DEF BlockItem, Item
  <2> HIDE DEF pair
  <2>3. \A i \in 1 .. Len(wire') :
           IF i \in 1 .. Len(wire) THEN wire'[i] = wire[i]
                                   ELSE wire'[i] = pair /\ i > Len(wire)
    BY <2>1, <2>2, PairFacts
  <2>4. ASSUME NEW i \in 1 .. Len(wire'), IsBlock(i)'
        PROVE  /\ wire'[i].height \in Block
               /\ last <= wire'[i].height /\ wire'[i].height <= tip'
               /\ i \in 1 .. Len(wire) => wire'[i].height <= tip
               /\ i \notin 1 .. Len(wire) => wire'[i].height = tip'
    <3>1. CASE i \in 1 .. Len(wire)
      BY <1>1, <2>3, <2>4, <3>1 DEF InOrder, IsBlock, Block
    <3>2. CASE i \notin 1 .. Len(wire)
      BY <1>1, <2>2, <2>3, <3>2
    <3> QED
      BY <3>1, <3>2
  <2>5. ASSUME NEW i \in 1 .. Len(wire'), NEW j \in 1 .. Len(wire'),
               IsBlock(i)', IsBlock(j)', i < j
        PROVE  wire'[i].height <= wire'[j].height
    <3>1. CASE j \in 1 .. Len(wire)
      <4>1. i \in 1 .. Len(wire)
        BY <2>1, <2>5, <3>1
      <4> QED
        BY <2>3, <2>5, <3>1, <4>1 DEF InOrder, IsBlock
    <3>2. CASE j \notin 1 .. Len(wire)
      BY <2>4, <2>5, <3>2
    <3> QED
      BY <3>1, <3>2
  <2> QED
    BY <1>1, <1>2, <2>4, <2>5 DEF InOrder
<1> QED
  BY <1>3, <1>4

\* What is left of the wire is in order.
LEMMA TailKeepsOrder ==
    ASSUME TypeOK, InOrder, wire # <<>>, wire' = Tail(wire), tip' = tip,
           last' = last \/ (IsBlock(1) /\ last' = wire[1].height)
    PROVE  InOrder'
<1>1. /\ \A i \in 1 .. Len(wire') :
            i + 1 \in 1 .. Len(wire) /\ wire'[i] = wire[i + 1]
      /\ 1 \in 1 .. Len(wire)
  BY TailFacts DEF TypeOK
<1>2. \A i \in 1 .. Len(wire') : IsBlock(i)' => IsBlock(i + 1)
  BY <1>1 DEF IsBlock
<1>3. last' <= tip'
  BY DEF InOrder, IsBlock
<1>4. ASSUME NEW i \in 1 .. Len(wire'), IsBlock(i)'
      PROVE  /\ wire'[i].height \in Block
             /\ last' <= wire'[i].height /\ wire'[i].height <= tip'
  <2>1. /\ IsBlock(i + 1) /\ i + 1 \in 1 .. Len(wire) /\ 1 < i + 1
        /\ wire'[i] = wire[i + 1]
    BY <1>1, <1>2, <1>4
  <2> QED
    BY <1>1, <2>1 DEF InOrder
<1>5. ASSUME NEW i \in 1 .. Len(wire'), NEW j \in 1 .. Len(wire'),
             IsBlock(i)', IsBlock(j)', i < j
      PROVE  wire'[i].height <= wire'[j].height
  <2>1. /\ IsBlock(i + 1) /\ i + 1 \in 1 .. Len(wire)
        /\ IsBlock(j + 1) /\ j + 1 \in 1 .. Len(wire)
        /\ i + 1 < j + 1
        /\ wire'[i] = wire[i + 1] /\ wire'[j] = wire[j + 1]
    BY <1>1, <1>2, <1>5
  <2> QED
    BY <2>1 DEF InOrder
<1> QED
  BY <1>3, <1>4, <1>5 DEF InOrder

LEMMA TakeBlockKeepsOnce ==
    ASSUME TypeOK, InOrder, HubHeard, TakeBlock
    PROVE  InOrder' /\ HubHeard'
<1>1. /\ wire # <<>> /\ wire' = Tail(wire) /\ tip' = tip
      /\ announced' = announced /\ handler = "idle"
  BY DEF TakeBlock, nodeVars
<1>2. Head(wire) = wire[1] /\ 1 \in 1 .. Len(wire)
  BY <1>1, TailFacts DEF TypeOK
<1>3. IsBlock(1)
  BY <1>2 DEF TakeBlock, IsBlock
<1>4. wire[1].height \in Block /\ last <= wire[1].height
  BY <1>2, <1>3 DEF InOrder
<1>5. \/ last' = last /\ handler' = handler
      \/ last' = wire[1].height /\ last' # last
  BY <1>2 DEF TakeBlock, Duplicate
<1>6. InOrder'
  BY <1>1, <1>3, <1>5, TailKeepsOrder
<1>7. HubHeard'
  <2>1. CASE last' = last /\ handler' = handler
    BY <1>1, <2>1 DEF HubHeard
  <2>2. CASE last' = wire[1].height /\ last' # last
    <3>1. last' \in Block /\ last < last'
      BY <1>4, <2>2 DEF TypeOK, Block, Value
    <3>2. announced[last'] = 0
      BY <3>1 DEF HubHeard, TypeOK, Block, Value
    <3>3. ASSUME NEW b \in Block
          PROVE  announced[b] = 0 \/ (announced[b] = 1 /\ b <= last')
      BY <3>1 DEF HubHeard, TypeOK, Block, Value
    <3> QED
      BY <1>1, <3>1, <3>2, <3>3 DEF HubHeard
  <2> QED
    BY <1>5, <2>1, <2>2
<1> QED
  BY <1>6, <1>7

LEMMA OnceStep ==
    ASSUME TypeOK, InOrder, HubHeard, [Next]_vars
    PROVE  InOrder' /\ HubHeard'
<1>1. CASE BlockMined
  BY <1>1, MinedKeepsOrder
<1>2. CASE Drop
  BY <1>2 DEF Drop, blockVars, InOrder, HubHeard, IsBlock
<1>3. CASE TakeBlock
  BY <1>3, TakeBlockKeepsOnce
<1>4. ASSUME NEW c \in Cache, NEW next \in {"interval", "hub"},
             Clears(c, next)
      PROVE  InOrder' /\ HubHeard'
  <2>1. /\ UNCHANGED <<tip, wire, last, announced>>
        /\ handler # "idle"
    BY <1>4 DEF Clears, nodeVars, Cache
  <2> QED
    BY <2>1 DEF InOrder, HubHeard, IsBlock
<1>5. CASE TellHub
  <2>1. /\ UNCHANGED <<tip, wire, last>>
        /\ handler = "hub" /\ handler' = "idle"
        /\ announced' = [announced EXCEPT ![last] = @ + 1]
    BY <1>5 DEF TellHub, nodeVars
  <2>2. last \in Block /\ announced[last] = 0
    BY <2>1 DEF HubHeard
  <2>3. ASSUME NEW b \in Block
        PROVE  announced'[b] = 0 \/ (announced'[b] = 1 /\ b <= last)
    <3>1. CASE b = last
      BY <2>1, <2>2, <3>1 DEF TypeOK, Block, Value
    <3>2. CASE b # last
      BY <2>1, <3>2 DEF HubHeard, TypeOK
    <3> QED
      BY <3>1, <3>2
  <2> QED
    BY <2>1, <2>3 DEF InOrder, HubHeard, IsBlock
<1>6. CASE TakeAnswer
  <2>1. /\ wire # <<>> /\ wire' = Tail(wire)
        /\ UNCHANGED <<tip, last, handler, announced>>
    BY <1>6 DEF TakeAnswer, nodeVars, blockVars
  <2>2. InOrder'
    BY <2>1, TailKeepsOrder
  <2> QED
    BY <2>1, <2>2 DEF HubHeard
<1>7. ASSUME NEW r \in Reader, NEW value \in Value \cup {None},
             NodeAnswers(r, value)
      PROVE  InOrder' /\ HubHeard'
  <2> DEFINE item == [reader |-> r, height |-> value]
  <2>1. /\ wire' = Append(wire, item) /\ wire \in Seq(Item)
        /\ UNCHANGED <<tip, last, handler, announced>>
    BY <1>7 DEF NodeAnswers, nodeVars, blockVars, TypeOK
  <2>2. item \in Item /\ item.reader # None
    BY NodeFeedAssumption DEF NodeFeedAssumption, Item
  <2> HIDE DEF item
  <2>3. \A i \in 1 .. Len(wire') : IsBlock(i)' =>
           IsBlock(i) /\ i \in 1 .. Len(wire) /\ wire'[i] = wire[i]
    BY <2>1, <2>2, AppendFacts DEF IsBlock
  <2> QED
    BY <2>1, <2>3 DEF InOrder, HubHeard
<1>8. CASE UNCHANGED <<tip, wire, last, handler, announced>>
  BY <1>8 DEF InOrder, HubHeard, IsBlock
<1>9. ASSUME NEW answer \in BOOLEAN, Joins(answer)
      PROVE  UNCHANGED <<tip, wire, last, handler, announced>>
  BY <1>9 DEF Joins, blockVars
<1>10. Connect => UNCHANGED <<tip, wire, last, handler, announced>>
  BY DEF Connect, blockVars
<1>11. ASSUME NEW r \in Reader, Look(r) \/ Served(r) \/ Ask(r) \/ Stores(r)
       PROVE  UNCHANGED <<tip, wire, last, handler, announced>>
  BY <1>11 DEF Look, Locks, Served, Ask, Misses, Stores, nodeVars, blockVars
<1>12. Tick \/ UNCHANGED vars => UNCHANGED <<tip, wire, last, handler, announced>>
  BY DEF Tick, vars, nodeVars, blockVars
<1> QED
  BY <1>1, <1>2, <1>3, <1>4, <1>5, <1>6, <1>7, <1>8, <1>9, <1>10, <1>11, <1>12
     DEF Next, Session, Callback, Read, Registers, RegistrationFails,
         ClearTotals, ResetInterval, Answers, AnswerFails, TypeOK, Cache

\* The hub is told of no block twice, through any number of sessions,
\* registrations and duplicated notifications.
THEOREM NodeFeedOncePerBlock == Spec => []OncePerBlock
<1>1. Init => InOrder /\ HubHeard
  BY OnceInit
<1>2. TypeOK /\ InOrder /\ HubHeard /\ [Next]_vars => InOrder' /\ HubHeard'
  BY OnceStep
<1>3. HubHeard => OncePerBlock
  BY DEF HubHeard, OncePerBlock
<1> QED
  BY <1>1, <1>2, <1>3, NodeFeedTypeCorrect, PTL DEF Spec

-----------------------------------------------------------------------------
(* Cached values are current unless raced *)

\* OnBlock has emptied the cache for the last block already.
Cleared(c) == handler \in {"idle", "hub"} \/ (c = "totals" /\ handler = "interval")

ReadersWant == \A r \in Reader : at[r] # "idle" => wants[r] \in Cache

\* At most one answer is on its way to a reader, which waits for it.
OneAnswer ==
    \A i \in 1 .. Len(wire) : wire[i].reader # None =>
        /\ at[wire[i].reader] = "asked"
        /\ \A j \in 1 .. Len(wire) : wire[j].reader = wire[i].reader => i = j

NotBehind(value) == value \in Value => last <= value

\* What a reader that was not overtaken by an invalidation brings is current.
FreshUnlessMissed ==
    \A r \in Reader : Cleared(wants[r]) /\ ~missed[r] =>
        /\ at[r] = "answered" => NotBehind(got[r])
        /\ \A i \in 1 .. Len(wire) :
              wire[i].reader = r => NotBehind(wire[i].height)

CachedUnlessRaced ==
    \A c \in Cache : Cleared(c) /\ ~raced[c] => NotBehind(cache[c])

CurrentInv == ReadersWant /\ OneAnswer /\ FreshUnlessMissed /\ CachedUnlessRaced

LEMMA ReadersOnWire ==
    ASSUME TypeOK, NEW i \in 1 .. Len(wire), wire[i].reader # None
    PROVE  wire[i].reader \in Reader
<1>1. wire[i] \in Item
  BY DEF TypeOK
<1> QED
  BY <1>1 DEF Item

\* The two ways in which a step leaves the answers on the wire alone: it adds
\* to the wire, or takes a block from it.
SameAnswers ==
    \/ \A i \in 1 .. Len(wire') : wire'[i].reader # None =>
          i \in 1 .. Len(wire) /\ wire'[i] = wire[i]
    \/ \A i \in 1 .. Len(wire') :
          i + 1 \in 1 .. Len(wire) /\ wire'[i] = wire[i + 1]

LEMMA MinedSameAnswers ==
    ASSUME TypeOK, BlockMined
    PROVE  SameAnswers
<1>1. CASE ~registered
  BY <1>1 DEF BlockMined, SameAnswers
<1>2. CASE registered
  <2> DEFINE pair == BlockItem(tip')
  <2>1. wire \in Seq(Item) /\ wire' = wire \o <<pair, pair>>
    BY <1>2 DEF BlockMined, TypeOK
  <2>2. pair \in Item /\ pair.reader = None
    BY NodeFeedAssumption
       DEF NodeFeedAssumption, BlockMined, BlockItem, Item, Block, Value, TypeOK
  <2> HIDE DEF pair
  <2> QED
    BY <2>1, <2>2, PairFacts DEF SameAnswers
<1> QED
  BY <1>1, <1>2

LEMMA TailSameAnswers ==
    ASSUME TypeOK, wire # <<>>, wire' = Tail(wire)
    PROVE  SameAnswers
BY TailFacts DEF TypeOK, SameAnswers

\* Nobody's answer is lost or doubled, and no answer changes.
LEMMA AnswersKept ==
    ASSUME TypeOK, CurrentInv, SameAnswers, last' = last,
           UNCHANGED <<at, wants, got, missed>>,
           \A c : Cleared(c)' <=> Cleared(c)
    PROVE  ReadersWant' /\ OneAnswer' /\ FreshUnlessMissed'
<1>1. ReadersWant'
  BY DEF CurrentInv, ReadersWant
<1>2. CASE \A i \in 1 .. Len(wire') : wire'[i].reader # None =>
              i \in 1 .. Len(wire) /\ wire'[i] = wire[i]
  <2>1. OneAnswer'
    BY <1>2 DEF CurrentInv, OneAnswer
  <2>2. FreshUnlessMissed'
    BY <1>2, NodeFeedAssumption
       DEF NodeFeedAssumption, CurrentInv, FreshUnlessMissed, NotBehind
  <2> QED
    BY <1>1, <2>1, <2>2
<1>3. CASE \A i \in 1 .. Len(wire') :
              i + 1 \in 1 .. Len(wire) /\ wire'[i] = wire[i + 1]
  <2>1. OneAnswer'
    <3> SUFFICES ASSUME NEW i \in 1 .. Len(wire'), wire'[i].reader # None
                 PROVE  /\ at[wire'[i].reader] = "asked"
                        /\ \A j \in 1 .. Len(wire') :
                              wire'[j].reader = wire'[i].reader => i = j
      BY DEF OneAnswer
    <3>1. /\ i + 1 \in 1 .. Len(wire) /\ wire'[i] = wire[i + 1]
      BY <1>3
    <3>2. /\ at[wire[i + 1].reader] = "asked"
          /\ \A j \in 1 .. Len(wire) :
                wire[j].reader = wire[i + 1].reader => i + 1 = j
      BY <3>1 DEF CurrentInv, OneAnswer
    <3> QED
      BY <1>3, <3>1, <3>2
  <2>2. FreshUnlessMissed'
    BY <1>3 DEF CurrentInv, FreshUnlessMissed, NotBehind
  <2> QED
    BY <1>1, <2>1, <2>2
<1> QED
  BY <1>2, <1>3 DEF SameAnswers

LEMMA CurrentInit ==
    ASSUME Init
    PROVE  CurrentInv
BY NodeFeedAssumption
   DEF Init, CurrentInv, ReadersWant, OneAnswer, FreshUnlessMissed,
       CachedUnlessRaced, NotBehind, NodeFeedAssumption, Value, Cache

LEMMA SessionKeepsCurrent ==
    ASSUME TypeOK, CurrentInv, Session
    PROVE  CurrentInv'
<1>1. /\ UNCHANGED <<last, handler, cache, raced, wants, got, missed>>
      /\ \A c : Cleared(c)' <=> Cleared(c)
  BY DEF Session, BlockMined, Drop, Connect, Registers, RegistrationFails, Joins,
         blockVars, cacheVars, readVars, history, Cleared
<1>2. CachedUnlessRaced'
  BY <1>1 DEF CurrentInv, CachedUnlessRaced, NotBehind
<1>3. CASE Drop
  <2>1. /\ wire' = <<>>
        /\ \A r \in Reader : /\ at'[r] # "idle" => at[r] # "idle"
                             /\ at'[r] = "answered" => at[r] = "answered"
    BY <1>3 DEF Drop, TypeOK
  <2>2. ReadersWant'
    BY <1>1, <2>1 DEF CurrentInv, ReadersWant
  <2>3. OneAnswer'
    BY <2>1 DEF OneAnswer
  <2>4. FreshUnlessMissed'
    BY <1>1, <2>1 DEF CurrentInv, FreshUnlessMissed, NotBehind
  <2> QED
    BY <1>2, <2>2, <2>3, <2>4 DEF CurrentInv
<1>4. CASE BlockMined
  <2>1. at' = at
    BY <1>4 DEF BlockMined, readVars
  <2> QED
    BY <1>1, <1>2, <1>4, <2>1, MinedSameAnswers, AnswersKept DEF CurrentInv
<1>5. ASSUME NEW answer \in BOOLEAN, Joins(answer) \/ Connect
      PROVE  CurrentInv'
  <2>1. at' = at /\ wire' = wire
    BY <1>5 DEF Joins, Connect, readVars
  <2>2. SameAnswers
    BY <2>1 DEF SameAnswers
  <2> QED
    BY <1>1, <1>2, <2>1, <2>2, AnswersKept DEF CurrentInv
<1> QED
  BY <1>3, <1>4, <1>5 DEF Session, Registers, RegistrationFails

\* A new block makes both caches wait for OnBlock; a duplicate changes nothing.
LEMMA TakeBlockKeepsCurrent ==
    ASSUME TypeOK, CurrentInv, TakeBlock
    PROVE  CurrentInv'
<1>1. /\ wire # <<>> /\ wire' = Tail(wire)
      /\ UNCHANGED <<at, wants, got, missed, raced, cache>>
  BY DEF TakeBlock, cacheVars, readVars, history
<1>2. SameAnswers
  BY <1>1, TailSameAnswers
<1>3. CASE UNCHANGED <<last, handler>>
  <2>1. \A c : Cleared(c)' <=> Cleared(c)
    BY <1>3 DEF Cleared
  <2>2. CachedUnlessRaced'
    BY <1>1, <1>3, <2>1 DEF CurrentInv, CachedUnlessRaced, NotBehind
  <2> QED
    BY <1>1, <1>2, <1>3, <2>1, <2>2, AnswersKept DEF CurrentInv
<1>4. CASE handler' = "totals"
  <2>1. \A c : ~Cleared(c)'
    BY <1>4 DEF Cleared
  <2>2. CachedUnlessRaced' /\ FreshUnlessMissed'
    BY <2>1 DEF CachedUnlessRaced, FreshUnlessMissed
  <2>3. ReadersWant'
    BY <1>1 DEF CurrentInv, ReadersWant
  <2>4. \A i \in 1 .. Len(wire') :
           i + 1 \in 1 .. Len(wire) /\ wire'[i] = wire[i + 1]
    BY <1>1, TailFacts DEF TypeOK
  <2>5. OneAnswer'
    <3> SUFFICES ASSUME NEW i \in 1 .. Len(wire'), wire'[i].reader # None
                 PROVE  /\ at[wire'[i].reader] = "asked"
                        /\ \A j \in 1 .. Len(wire') :
                              wire'[j].reader = wire'[i].reader => i = j
      BY <1>1 DEF OneAnswer
    <3>1. /\ at[wire[i + 1].reader] = "asked"
          /\ \A j \in 1 .. Len(wire) :
                wire[j].reader = wire[i + 1].reader => i + 1 = j
      BY <2>4 DEF CurrentInv, OneAnswer
    <3>2. ASSUME NEW j \in 1 .. Len(wire'),
                 wire'[j].reader = wire'[i].reader
          PROVE  i = j
      <4>1. /\ j + 1 \in 1 .. Len(wire)
            /\ wire[j + 1].reader = wire[i + 1].reader
        BY <2>4, <3>2
      <4>2. i + 1 = j + 1
        BY <3>1, <4>1
      <4> QED
        BY <4>2
    <3> QED
      BY <2>4, <3>1, <3>2
  <2> QED
    BY <2>2, <2>3, <2>5 DEF CurrentInv
<1> QED
  BY <1>3, <1>4 DEF TakeBlock

\* Emptying a cache leaves nothing that is outdated in it, and marks everybody
\* who is about to fill it.
LEMMA ClearsKeepsCurrent ==
    ASSUME TypeOK, CurrentInv, NEW c \in Cache, NEW next,
           Clears(c, next), <<c, next>> \in {<<"totals", "interval">>,
                                             <<"interval", "hub">>}
    PROVE  CurrentInv'
<1> USE NodeFeedAssumption DEF NodeFeedAssumption
<1>1. /\ UNCHANGED <<wire, last, at, wants, got>>
      /\ handler = c /\ handler' = next
      /\ cache' = [cache EXCEPT ![c] = None]
      /\ missed' = [r \in Reader |-> missed[r] \/ wants[r] = c]
      /\ raced' = [raced EXCEPT ![c] = FALSE]
  BY DEF Clears, readVars
<1>2. \A d \in Cache : Cleared(d)' => Cleared(d) \/ d = c
  BY <1>1 DEF Cleared, Cache
<1>3. ReadersWant' /\ OneAnswer'
  BY <1>1 DEF CurrentInv, ReadersWant, OneAnswer
<1>4. CachedUnlessRaced'
  <2> SUFFICES ASSUME NEW d \in Cache, Cleared(d)', ~raced'[d]
               PROVE  NotBehind(cache[d])'
    BY DEF CachedUnlessRaced
  <2>1. CASE d = c
    <3>1. cache'[d] = None
      BY <1>1, <2>1 DEF TypeOK
    <3> QED
      BY <3>1 DEF NotBehind, Value
  <2>2. CASE d # c
    <3>1. cache'[d] = cache[d] /\ raced'[d] = raced[d]
      BY <1>1, <2>2, Zenon DEF TypeOK
    <3> QED
      BY <1>1, <1>2, <2>2, <3>1 DEF CurrentInv, CachedUnlessRaced, NotBehind
  <2> QED
    BY <2>1, <2>2
<1>5. FreshUnlessMissed'
  <2> SUFFICES ASSUME NEW r \in Reader, Cleared(wants[r])', ~missed'[r]
               PROVE  /\ at[r] = "answered" => NotBehind(got[r])
                      /\ \A i \in 1 .. Len(wire) :
                            wire[i].reader = r => NotBehind(wire[i].height)
    BY <1>1 DEF FreshUnlessMissed, NotBehind
  <2>1. ~missed[r] /\ wants[r] # c
    BY <1>1, Zenon
  <2>2. CASE at[r] = "idle"
    BY <2>2 DEF CurrentInv, OneAnswer
  <2>3. CASE at[r] # "idle"
    <3>1. Cleared(wants[r])
      BY <1>1, <1>2, <2>1, <2>3 DEF CurrentInv, ReadersWant
    <3> QED
      BY <2>1, <3>1 DEF CurrentInv, FreshUnlessMissed
  <2> QED
    BY <2>2, <2>3
<1> QED
  BY <1>3, <1>4, <1>5 DEF CurrentInv

LEMMA TellHubKeepsCurrent ==
    ASSUME TypeOK, CurrentInv, TellHub
    PROVE  CurrentInv'
<1>1. /\ UNCHANGED <<wire, last, at, wants, got, missed, raced, cache>>
      /\ \A c : Cleared(c)' <=> Cleared(c)
  BY DEF TellHub, cacheVars, readVars, history, Cleared
<1>2. SameAnswers
  BY <1>1 DEF SameAnswers
<1>3. CachedUnlessRaced'
  BY <1>1 DEF CurrentInv, CachedUnlessRaced, NotBehind
<1> QED
  BY <1>1, <1>2, <1>3, AnswersKept DEF CurrentInv

\* The answer that is taken was the only one on its way to its reader.
LEMMA TakeAnswerKeepsCurrent ==
    ASSUME TypeOK, CurrentInv, TakeAnswer
    PROVE  CurrentInv'
<1> DEFINE q == Head(wire).reader
<1>1. /\ wire # <<>> /\ wire' = Tail(wire)
      /\ UNCHANGED <<last, handler, wants, missed, raced, cache>>
      /\ q # None
      /\ at' = [at EXCEPT ![q] = "answered"]
      /\ got' = [got EXCEPT ![q] = Head(wire).height]
  BY DEF TakeAnswer, blockVars, cacheVars, history
<1>2. /\ Head(wire) = wire[1] /\ 1 \in 1 .. Len(wire)
      /\ \A i \in 1 .. Len(wire') :
            i + 1 \in 1 .. Len(wire) /\ wire'[i] = wire[i + 1]
  BY <1>1, TailFacts DEF TypeOK
<1>3. q = wire[1].reader
  BY <1>2
<1> HIDE DEF q
<1>4. /\ at[q] = "asked"
      /\ \A j \in 1 .. Len(wire) : wire[j].reader = q => j = 1
  BY <1>1, <1>2, <1>3 DEF CurrentInv, OneAnswer
<1>5. ASSUME NEW i \in 1 .. Len(wire')
      PROVE  wire'[i].reader # q
  <2>1. i + 1 \in 1 .. Len(wire) /\ wire'[i] = wire[i + 1] /\ i + 1 # 1
    BY <1>2
  <2> QED
    BY <1>4, <2>1
<1>6. \A r \in Reader : r # q => at'[r] = at[r] /\ got'[r] = got[r]
  BY <1>1, Zenon DEF TypeOK
<1>7. \A c : Cleared(c)' <=> Cleared(c)
  BY <1>1 DEF Cleared
<1>8. ReadersWant'
  <2> SUFFICES ASSUME NEW r \in Reader, at'[r] # "idle"
               PROVE  wants[r] \in Cache
    BY <1>1 DEF ReadersWant
  <2>1. at[r] # "idle"
    BY <1>4, <1>6
  <2> QED
    BY <2>1 DEF CurrentInv, ReadersWant
<1>9. OneAnswer'
  <2> SUFFICES ASSUME NEW i \in 1 .. Len(wire'), wire'[i].reader # None
               PROVE  /\ at'[wire'[i].reader] = "asked"
                      /\ \A j \in 1 .. Len(wire') :
                            wire'[j].reader = wire'[i].reader => i = j
    BY DEF OneAnswer
  <2>1. i + 1 \in 1 .. Len(wire) /\ wire'[i] = wire[i + 1]
    BY <1>2
  <2>2. /\ at[wire[i + 1].reader] = "asked"
        /\ \A j \in 1 .. Len(wire) :
              wire[j].reader = wire[i + 1].reader => i + 1 = j
    BY <2>1 DEF CurrentInv, OneAnswer
  <2>3. wire'[i].reader \in Reader
    BY <2>1, ReadersOnWire
  <2>4. at'[wire'[i].reader] = "asked"
    BY <1>5, <1>6, <2>1, <2>2, <2>3
  <2>5. ASSUME NEW j \in 1 .. Len(wire'),
               wire'[j].reader = wire'[i].reader
        PROVE  i = j
    <3>1. /\ j + 1 \in 1 .. Len(wire)
          /\ wire[j + 1].reader = wire[i + 1].reader
      BY <1>2, <2>5
    <3>2. i + 1 = j + 1
      BY <2>2, <3>1
    <3> QED
      BY <3>2
  <2> QED
    BY <2>4, <2>5
<1>10. FreshUnlessMissed'
  <2> SUFFICES ASSUME NEW r \in Reader, Cleared(wants[r]), ~missed[r]
               PROVE  /\ at'[r] = "answered" => NotBehind(got'[r])
                      /\ \A i \in 1 .. Len(wire') :
                            wire'[i].reader = r => NotBehind(wire'[i].height)
    BY <1>1, <1>7 DEF FreshUnlessMissed, NotBehind
  <2>1. /\ at[r] = "answered" => NotBehind(got[r])
        /\ \A i \in 1 .. Len(wire) :
              wire[i].reader = r => NotBehind(wire[i].height)
    BY DEF CurrentInv, FreshUnlessMissed
  <2>2. \A i \in 1 .. Len(wire') :
           wire'[i].reader = r => NotBehind(wire'[i].height)
    BY <1>2, <2>1
  <2>3. CASE r = q
    <3>1. got'[r] = wire[1].height
      BY <1>1, <1>2, <2>3 DEF TypeOK
    <3> QED
      BY <1>2, <1>3, <2>1, <2>2, <2>3, <3>1
  <2>4. CASE r # q
    BY <1>6, <2>1, <2>2, <2>4
  <2> QED
    BY <2>3, <2>4
<1>11. CachedUnlessRaced'
  BY <1>1, <1>7 DEF CurrentInv, CachedUnlessRaced, NotBehind
<1> QED
  BY <1>8, <1>9, <1>10, <1>11 DEF CurrentInv

LEMMA LookKeepsCurrent ==
    ASSUME TypeOK, CurrentInv, NEW r \in Reader, Look(r) \/ Served(r)
    PROVE  CurrentInv'
<1>1. PICK c \in Cache \cup {None} :
         /\ UNCHANGED <<wire, last, handler, got, raced, cache, missed>>
         /\ at[r] \in {"idle", "looking"}
         /\ at' = [at EXCEPT ![r] = IF c = None THEN "idle" ELSE "looking"]
         /\ wants' = [wants EXCEPT ![r] = c]
  <2>1. CASE Look(r)
    BY <2>1, NodeFeedAssumption
       DEF Look, Locks, blockVars, NodeFeedAssumption, Cache
  <2>2. CASE Served(r)
    BY <2>2 DEF Served, blockVars, history
  <2> QED
    BY <2>1, <2>2
<1>2. /\ at'[r] \in {"idle", "looking"} /\ wants'[r] = c
      /\ at'[r] # "idle" => c \in Cache
      /\ \A d \in Reader : d # r => at'[d] = at[d] /\ wants'[d] = wants[d]
  BY <1>1 DEF TypeOK
<1>3. \A i \in 1 .. Len(wire) : wire[i].reader # None => wire[i].reader # r
  BY <1>1 DEF CurrentInv, OneAnswer
<1>4. \A i \in 1 .. Len(wire) :
         wire[i].reader # None => wire[i].reader \in Reader
  BY ReadersOnWire
<1>5. \A d : Cleared(d)' <=> Cleared(d)
  BY <1>1 DEF Cleared
<1>6. ReadersWant'
  BY <1>2 DEF CurrentInv, ReadersWant
<1>7. OneAnswer'
  BY <1>1, <1>2, <1>3, <1>4 DEF CurrentInv, OneAnswer
<1>8. FreshUnlessMissed'
  <2> SUFFICES ASSUME NEW d \in Reader, Cleared(wants'[d]), ~missed[d]
               PROVE  /\ at'[d] = "answered" => NotBehind(got[d])
                      /\ \A i \in 1 .. Len(wire) :
                            wire[i].reader = d => NotBehind(wire[i].height)
    BY <1>1, <1>5 DEF FreshUnlessMissed, NotBehind
  <2>1. CASE d = r
    BY <1>2, <1>3, <2>1, NodeFeedAssumption DEF NodeFeedAssumption
  <2>2. CASE d # r
    BY <1>2, <2>2 DEF CurrentInv, FreshUnlessMissed
  <2> QED
    BY <2>1, <2>2
<1>9. CachedUnlessRaced'
  BY <1>1, <1>5 DEF CurrentInv, CachedUnlessRaced, NotBehind
<1> QED
  BY <1>6, <1>7, <1>8, <1>9 DEF CurrentInv

\* The fetch starts after every block that OnBlock has handled.
LEMMA AskKeepsCurrent ==
    ASSUME TypeOK, CurrentInv, NEW r \in Reader, Ask(r)
    PROVE  CurrentInv'
<1>1. /\ UNCHANGED <<wire, last, handler, wants, raced, cache>>
      /\ at[r] = "looking"
      /\ at' = [at EXCEPT ![r] = IF Available THEN "asking" ELSE "answered"]
      /\ got' = [got EXCEPT ![r] = None]
      /\ missed' = [missed EXCEPT ![r] = FALSE]
  BY DEF Ask, Misses, blockVars
<1>2. \A d : Cleared(d)' <=> Cleared(d)
  BY <1>1 DEF Cleared
<1>3. /\ got'[r] = None
      /\ \A d \in Reader : d # r =>
            at'[d] = at[d] /\ got'[d] = got[d] /\ missed'[d] = missed[d]
  BY <1>1, Zenon DEF TypeOK
<1>4. \A i \in 1 .. Len(wire) : wire[i].reader # r
  BY <1>1, NodeFeedAssumption
     DEF CurrentInv, OneAnswer, NodeFeedAssumption
<1>5. ReadersWant'
  BY <1>1, <1>3 DEF CurrentInv, ReadersWant
<1>6. OneAnswer'
  BY <1>1, <1>3, <1>4, ReadersOnWire DEF CurrentInv, OneAnswer
<1>7. FreshUnlessMissed'
  <2> SUFFICES ASSUME NEW d \in Reader, Cleared(wants[d]), ~missed'[d]
               PROVE  /\ at'[d] = "answered" => NotBehind(got'[d])
                      /\ \A i \in 1 .. Len(wire) :
                            wire[i].reader = d => NotBehind(wire[i].height)
    BY <1>1, <1>2 DEF FreshUnlessMissed, NotBehind
  <2>1. CASE d = r
    <3>1. NotBehind(got'[d])
      BY <1>3, <2>1, NodeFeedAssumption
         DEF NotBehind, Value, NodeFeedAssumption
    <3> QED
      BY <1>4, <2>1, <3>1
  <2>2. CASE d # r
    BY <1>3, <2>2 DEF CurrentInv, FreshUnlessMissed
  <2> QED
    BY <2>1, <2>2
<1>8. CachedUnlessRaced'
  BY <1>1, <1>2 DEF CurrentInv, CachedUnlessRaced, NotBehind
<1> QED
  BY <1>5, <1>6, <1>7, <1>8 DEF CurrentInv

\* What btcd answers is not behind what it has announced.
LEMMA AnswerKeepsCurrent ==
    ASSUME TypeOK, InOrder, CurrentInv, NEW r \in Reader,
           NEW value \in {tip, None}, NodeAnswers(r, value)
    PROVE  CurrentInv'
<1> DEFINE item == [reader |-> r, height |-> value]
<1>1. /\ wire' = Append(wire, item) /\ wire \in Seq(Item)
      /\ at[r] = "asking" /\ at' = [at EXCEPT ![r] = "asked"]
      /\ UNCHANGED <<last, handler, wants, got, missed, raced, cache>>
  BY DEF NodeAnswers, blockVars, cacheVars, history, TypeOK
<1>2. item \in Item /\ item.reader = r /\ NotBehind(item.height)
  BY NodeFeedAssumption
     DEF Item, InOrder, NotBehind, NodeFeedAssumption, Value, TypeOK
<1> HIDE DEF item
<1>3. \A i \in 1 .. Len(wire') :
         IF i \in 1 .. Len(wire) THEN wire'[i] = wire[i]
                                 ELSE wire'[i] = item /\ i = Len(wire')
  BY <1>1, <1>2, AppendFacts
<1>4. \A d : Cleared(d)' <=> Cleared(d)
  BY <1>1 DEF Cleared
<1>5. \A d \in Reader : d # r => at'[d] = at[d]
  BY <1>1 DEF TypeOK
<1>6. \A i \in 1 .. Len(wire) : wire[i].reader # r
  BY <1>1, NodeFeedAssumption
     DEF CurrentInv, OneAnswer, NodeFeedAssumption
<1>7. ReadersWant'
  BY <1>1, <1>5 DEF CurrentInv, ReadersWant
<1>8. OneAnswer'
  <2> SUFFICES ASSUME NEW i \in 1 .. Len(wire'), wire'[i].reader # None
               PROVE  /\ at'[wire'[i].reader] = "asked"
                      /\ \A j \in 1 .. Len(wire') :
                            wire'[j].reader = wire'[i].reader => i = j
    BY DEF OneAnswer
  <2>1. CASE i \in 1 .. Len(wire)
    <3>1. /\ wire'[i] = wire[i] /\ wire[i].reader \in Reader
          /\ wire[i].reader # r
      BY <1>3, <1>6, <2>1, ReadersOnWire
    <3>2. at'[wire'[i].reader] = "asked"
      BY <1>5, <2>1, <3>1 DEF CurrentInv, OneAnswer
    <3>3. ASSUME NEW j \in 1 .. Len(wire'),
                 wire'[j].reader = wire'[i].reader
          PROVE  i = j
      <4>1. j \in 1 .. Len(wire) /\ wire'[j] = wire[j]
        BY <1>2, <1>3, <3>1, <3>3
      <4> QED
        BY <2>1, <3>1, <3>3, <4>1 DEF CurrentInv, OneAnswer
    <3> QED
      BY <3>2, <3>3
  <2>2. CASE i \notin 1 .. Len(wire)
    <3>1. wire'[i] = item /\ i = Len(wire')
      BY <1>3, <2>2
    <3>2. at'[r] = "asked"
      BY <1>1 DEF TypeOK
    <3>3. \A j \in 1 .. Len(wire') :
             wire'[j].reader = r => j = Len(wire')
      BY <1>3, <1>6
    <3> QED
      BY <1>2, <3>1, <3>2, <3>3
  <2> QED
    BY <2>1, <2>2
<1>9. FreshUnlessMissed'
  <2> SUFFICES ASSUME NEW d \in Reader, Cleared(wants[d]), ~missed[d]
               PROVE  /\ at'[d] = "answered" => NotBehind(got[d])
                      /\ \A i \in 1 .. Len(wire') :
                            wire'[i].reader = d => NotBehind(wire'[i].height)
    BY <1>1, <1>4 DEF FreshUnlessMissed, NotBehind
  <2>1. at'[d] = "answered" => at[d] = "answered"
    BY <1>1 DEF TypeOK
  <2> QED
    BY <1>2, <1>3, <2>1 DEF CurrentInv, FreshUnlessMissed
<1>10. CachedUnlessRaced'
  BY <1>1, <1>4 DEF CurrentInv, CachedUnlessRaced, NotBehind
<1> QED
  BY <1>7, <1>8, <1>9, <1>10 DEF CurrentInv

\* What is stored is current unless the cache was emptied since it was asked
\* for, which the history of the entry says.
LEMMA StoresKeepsCurrent ==
    ASSUME TypeOK, CurrentInv, NEW r \in Reader, Stores(r)
    PROVE  CurrentInv'
<1> USE NodeFeedAssumption DEF NodeFeedAssumption
<1>1. /\ UNCHANGED <<wire, last, handler>>
      /\ at[r] = "answered"
      /\ at' = [at EXCEPT ![r] = "idle"]
      /\ wants' = [wants EXCEPT ![r] = None]
      /\ got' = [got EXCEPT ![r] = None]
      /\ missed' = [missed EXCEPT ![r] = FALSE]
  BY DEF Stores, blockVars
<1>2. \A d : Cleared(d)' <=> Cleared(d)
  BY <1>1 DEF Cleared
<1>3. /\ at'[r] = "idle"
      /\ \A d \in Reader : d # r => /\ at'[d] = at[d] /\ got'[d] = got[d]
                                    /\ missed'[d] = missed[d]
                                    /\ wants'[d] = wants[d]
  BY <1>1, Zenon DEF TypeOK
<1>4. \A i \in 1 .. Len(wire) : wire[i].reader # r
  BY <1>1 DEF CurrentInv, OneAnswer
<1>5. ReadersWant'
  BY <1>1, <1>3 DEF CurrentInv, ReadersWant
<1>6. OneAnswer'
  BY <1>1, <1>3, <1>4, ReadersOnWire DEF CurrentInv, OneAnswer
<1>7. FreshUnlessMissed'
  <2> SUFFICES ASSUME NEW d \in Reader, Cleared(wants'[d]), ~missed'[d]
               PROVE  /\ at'[d] = "answered" => NotBehind(got'[d])
                      /\ \A i \in 1 .. Len(wire) :
                            wire[i].reader = d => NotBehind(wire[i].height)
    BY <1>1, <1>2 DEF FreshUnlessMissed, NotBehind
  <2>1. CASE d = r
    BY <1>3, <1>4, <2>1
  <2>2. CASE d # r
    BY <1>3, <2>2 DEF CurrentInv, FreshUnlessMissed
  <2> QED
    BY <2>1, <2>2
<1>8. CachedUnlessRaced'
  <2>1. CASE UNCHANGED <<cache, raced>>
    BY <1>1, <1>2, <2>1 DEF CurrentInv, CachedUnlessRaced, NotBehind
  <2>2. CASE /\ cache' = [cache EXCEPT ![wants[r]] = Result(r)]
             /\ raced' = [raced EXCEPT ![wants[r]] = missed[r]]
    <3> SUFFICES ASSUME NEW c \in Cache, Cleared(c), ~raced'[c]
                 PROVE  NotBehind(cache'[c])
      BY <1>1, <1>2 DEF CachedUnlessRaced, NotBehind
    <3>1. CASE c = wants[r]
      <4>1. ~missed[r]
        BY <2>2, <3>1, Zenon DEF TypeOK
      <4>2. cache'[c] = Result(r)
        BY <2>2, <3>1 DEF TypeOK
      <4>3. NotBehind(got[r])
        BY <1>1, <3>1, <4>1 DEF CurrentInv, FreshUnlessMissed
      <4> QED
        BY <4>2, <4>3 DEF Result, NotBehind, Value
    <3>2. CASE c # wants[r]
      <4>1. cache'[c] = cache[c] /\ raced'[c] = raced[c]
        BY <2>2, <3>2, Zenon DEF TypeOK
      <4> QED
        BY <4>1 DEF CurrentInv, CachedUnlessRaced
    <3> QED
      BY <3>1, <3>2
  <2> QED
    BY <2>1, <2>2 DEF Stores
<1> QED
  BY <1>5, <1>6, <1>7, <1>8 DEF CurrentInv

LEMMA CurrentStep ==
    ASSUME TypeOK, InOrder, CurrentInv, [Next]_vars
    PROVE  CurrentInv'
<1>1. CASE Session
  BY <1>1, SessionKeepsCurrent
<1>2. CASE Callback
  BY <1>2, TakeBlockKeepsCurrent, ClearsKeepsCurrent, TellHubKeepsCurrent,
     TakeAnswerKeepsCurrent
     DEF Callback, ClearTotals, ResetInterval, Cache
<1>3. ASSUME NEW r \in Reader, Read(r)
      PROVE  CurrentInv'
  BY <1>3, LookKeepsCurrent, AskKeepsCurrent, AnswerKeepsCurrent,
     StoresKeepsCurrent
     DEF Read, Answers, AnswerFails
<1>4. CASE Tick \/ UNCHANGED vars
  <2>1. /\ UNCHANGED <<wire, last, handler, at, wants, got, missed, raced,
                       cache>>
        /\ \A c : Cleared(c)' <=> Cleared(c)
    BY <1>4 DEF Tick, vars, blockVars, cacheVars, readVars, history, Cleared
  <2>2. SameAnswers
    BY <2>1 DEF SameAnswers
  <2>3. CachedUnlessRaced'
    BY <2>1 DEF CurrentInv, CachedUnlessRaced, NotBehind
  <2> QED
    BY <2>1, <2>2, <2>3, AnswersKept DEF CurrentInv
<1> QED
  BY <1>1, <1>2, <1>3, <1>4 DEF Next

\* Between callbacks, a cache serves nothing older than the last announced
\* block, unless the fetch was overtaken by that block's invalidation.
THEOREM NodeFeedCurrent == Spec => []CurrentUnlessRaced
<1>1. Init => InOrder /\ HubHeard /\ CurrentInv
  BY OnceInit, CurrentInit
<1>2. /\ TypeOK /\ InOrder /\ HubHeard /\ CurrentInv /\ [Next]_vars
      => InOrder' /\ HubHeard' /\ CurrentInv'
  BY OnceStep, CurrentStep
<1>3. TypeOK /\ CurrentInv => CurrentUnlessRaced
  <2> SUFFICES ASSUME TypeOK, CurrentInv, handler = "idle",
                      NEW c \in Cache, Valid(c), cache[c] # Fallback, ~raced[c]
               PROVE  cache[c] >= last
    BY DEF CurrentUnlessRaced
  <2>1. cache[c] \in Value
    BY DEF Valid, TypeOK
  <2>2. NotBehind(cache[c])
    BY DEF CurrentInv, CachedUnlessRaced, Cleared
  <2> QED
    BY <2>1, <2>2, NodeFeedAssumption
       DEF NotBehind, TypeOK, Value, NodeFeedAssumption
<1> QED
  BY <1>1, <1>2, <1>3, NodeFeedTypeCorrect, PTL DEF Spec
=============================================================================
