------------------------------ MODULE NodeFeed ------------------------------
(***************************************************************************)
(* The websocket session to btcd (internal/node/client.go), what a new     *)
(* block does to the service's caches (Service.OnBlock in                  *)
(* internal/explorer/tx.go), and how those caches are filled by RPCs over  *)
(* the same session: the totals of an address (address.go) and the         *)
(* measured block interval (tx.go).                                        *)
(*                                                                         *)
(* Notifications and answers share one stream, which one goroutine of      *)
(* rpcclient reads and on which it runs the callbacks: while OnBlock       *)
(* waits, no answer arrives.  A block is its height above the chain at     *)
(* start, a cached value the tip it was computed at; times are ages,       *)
(* capped at the time to live.  (OnBlock also marks the mempool snapshot   *)
(* dirty, which Mempool.tla models.)                                       *)
(***************************************************************************)
EXTENDS Naturals, Sequences

CONSTANTS
    Reader,       \* goroutines that ask for a cached value
    None,         \* nothing cached, nothing answered
    Fallback,     \* the network's target time, cached when measuring fails
    Free,         \* a mutex nobody holds
    TTL,          \* totalsTTL and the 30 s of the block interval
    MaxTip,       \* bound on the blocks mined
    MaxJoins      \* bound on the onClientConnected goroutines told apart

ASSUME NodeFeedAssumption ==
    /\ TTL \in Nat \ {0} /\ MaxTip \in Nat /\ MaxJoins \in Nat \ {0}
    /\ {None, Fallback} \cap Nat = {} /\ None # Fallback
    /\ {None, Free} \cap Reader = {}
    /\ None \notin {"totals", "interval"}

VARIABLES
    tip,         \* btcd's best block
    up,          \* is the websocket session established?
    registered,  \* does btcd send notifications on it?
    wire,        \* what btcd sent and rpcclient has not handled yet
    joining,     \* goroutines of onClientConnected under way
    ready,       \* c.ready
    last,        \* c.lastBlockHash
    handler,     \* what the callback goroutine does next
    announced,   \* history: how often the hub was told of each block
    mutex,       \* who holds the mutex of each cache
    cache,       \* the cached values
    age,         \* ... and their ages, at most TTL
    at,          \* where every reader is
    wants,       \* ... which cache it reads
    got,         \* ... what it is about to store
    missed,      \* history: was the cache invalidated since it asked?
    raced        \* history: did the cached value come from such a reader?

nodeVars  == <<tip, up, registered>>
joinVars  == <<joining, ready>>
blockVars == <<last, handler, announced>>
cacheVars == <<mutex, cache, age>>
readVars  == <<at, wants, got>>
history   == <<missed, raced>>
vars == <<nodeVars, wire, joinVars, blockVars, cacheVars, readVars, history>>

Cache == {"totals", "interval"}
Block == 1 .. MaxTip
Value == 0 .. MaxTip

\* A notification of block height, or (reader # None) the answer to a reader:
\* the tip it shows, or None for an error.
Item == [reader : {None}, height : Block]
            \cup [reader : Reader, height : Value \cup {None}]

BlockItem(b) == [reader |-> None, height |-> b]

-----------------------------------------------------------------------------
(* The node and the session *)

\* btcd announces a block twice, in its filtered and its legacy form.
BlockMined ==
    /\ tip < MaxTip
    /\ tip' = tip + 1
    /\ wire' = IF registered THEN wire \o <<BlockItem(tip'), BlockItem(tip')>>
                             ELSE wire
    /\ UNCHANGED <<up, registered, joinVars, blockVars, cacheVars, readVars,
                   history>>

\* Deviation: the registration is believed to outlive its session.
DropKeepsRegistration ==
    /\ up
    /\ up' = FALSE
    /\ wire' = <<>>
    /\ at' = [r \in Reader |-> IF at[r] = "asked" THEN "asking" ELSE at[r]]
    /\ UNCHANGED <<tip, registered, joinVars, blockVars, cacheVars, wants, got,
                   history>>

\* The session is lost, and with it what was on its way.  rpcclient sends
\* requests without an answer again on the next session.
Drop ==
    /\ up
    /\ up' = FALSE
    /\ registered' = FALSE
    /\ wire' = <<>>
    /\ at' = [r \in Reader |-> IF at[r] = "asked" THEN "asking" ELSE at[r]]
    /\ UNCHANGED <<tip, joinVars, blockVars, cacheVars, wants, got, history>>

\* rpcclient connects again and calls onClientConnected.  Its goroutines all
\* do the same; no more than MaxJoins are told apart.
Connect ==
    /\ ~up
    /\ up' = TRUE
    /\ joining' = IF joining < MaxJoins THEN joining + 1 ELSE joining
    /\ UNCHANGED <<tip, registered, wire, ready, blockVars, cacheVars,
                   readVars, history>>

\* The goroutine of onClientConnected: NotifyBlocks is answered or fails,
\* which is only logged.
Joins(answer) ==
    /\ up
    /\ joining > 0
    /\ joining' = joining - 1
    /\ ready' = TRUE
    /\ registered' = (registered \/ answer)
    /\ UNCHANGED <<tip, up, wire, blockVars, cacheVars, readVars, history>>

Registers == Joins(TRUE)
RegistrationFails == Joins(FALSE)

\* available(): every call fails fast without a session.
Available == ready /\ up

-----------------------------------------------------------------------------
(* The callback goroutine *)

\* Deviation: every notification counts.
DuplicateNever(b) == FALSE

\* The other form of the block that was handled last.
Duplicate(b) == b = last

\* onBlock.
TakeBlock ==
    /\ handler = "idle"
    /\ wire # <<>> /\ Head(wire).reader = None
    /\ wire' = Tail(wire)
    /\ IF Duplicate(Head(wire).height)
       THEN UNCHANGED <<last, handler>>
       ELSE last' = Head(wire).height /\ handler' = "totals"
    /\ UNCHANGED <<nodeVars, joinVars, announced, cacheVars, readVars, history>>

\* OnBlock takes the mutex of one cache after the other and empties it.
Clears(c, next) ==
    /\ handler = c
    /\ mutex[c] = Free
    /\ handler' = next
    /\ cache' = [cache EXCEPT ![c] = None]
    /\ missed' = [r \in Reader |-> missed[r] \/ wants[r] = c]
    /\ raced' = [raced EXCEPT ![c] = FALSE]
    /\ UNCHANGED <<nodeVars, wire, joinVars, last, announced, mutex, age,
                   readVars>>

\* Deviation: the totals are left to their time to live.
TotalsKept ==
    /\ handler = "totals"
    /\ handler' = "interval"
    /\ UNCHANGED <<nodeVars, wire, joinVars, last, announced, cacheVars,
                   readVars, history>>

ClearTotals == Clears("totals", "interval")

ResetInterval == Clears("interval", "hub")

\* ... and the hub is told (it never keeps the caller waiting: Hub.tla).
TellHub ==
    /\ handler = "hub"
    /\ handler' = "idle"
    /\ announced' = [announced EXCEPT ![last] = @ + 1]
    /\ UNCHANGED <<nodeVars, wire, joinVars, last, cacheVars, readVars, history>>

\* An answer reaches the reader that waits for it.
TakeAnswer ==
    /\ handler = "idle"
    /\ wire # <<>> /\ Head(wire).reader # None
    /\ wire' = Tail(wire)
    /\ LET r == Head(wire).reader
       IN  /\ at' = [at EXCEPT ![r] = "answered"]
           /\ got' = [got EXCEPT ![r] = Head(wire).height]
    /\ UNCHANGED <<nodeVars, joinVars, blockVars, cacheVars, wants, history>>

-----------------------------------------------------------------------------
(* Reading a cache: addressTotals and avgBlockInterval *)

\* Deviation: a cached value is good until the next block.
ValidForever(c) == cache[c] # None

Valid(c) == cache[c] # None /\ age[c] < TTL

Locks(r, c) ==
    /\ mutex[c] = Free
    /\ mutex' = [mutex EXCEPT ![c] = r]
    /\ UNCHANGED <<nodeVars, wire, joinVars, blockVars, cache, age, got, raced>>

\* A call takes the mutex to look.
Look(r) ==
    /\ at[r] = "idle"
    /\ \E c \in Cache :
        /\ Locks(r, c)
        /\ wants' = [wants EXCEPT ![r] = c]
    /\ at' = [at EXCEPT ![r] = "looking"]
    /\ UNCHANGED missed

Served(r) ==
    /\ at[r] = "looking"
    /\ Valid(wants[r])
    /\ mutex' = [mutex EXCEPT ![wants[r]] = Free]
    /\ at' = [at EXCEPT ![r] = "idle"]
    /\ wants' = [wants EXCEPT ![r] = None]
    /\ UNCHANGED <<nodeVars, wire, joinVars, blockVars, cache, age, got, history>>

Misses(r) ==
    /\ at[r] = "looking"
    /\ ~Valid(wants[r])
    /\ at' = [at EXCEPT ![r] = IF Available THEN "asking" ELSE "answered"]
    /\ got' = [got EXCEPT ![r] = None]
    /\ missed' = [missed EXCEPT ![r] = FALSE]
    /\ UNCHANGED <<nodeVars, wire, joinVars, blockVars, cache, age, wants, raced>>

\* Deviation: the mutex is held across the RPC.
AskLocked(r) == Misses(r) /\ UNCHANGED mutex

\* The mutex is given back before the RPC.
Ask(r) == Misses(r) /\ mutex' = [mutex EXCEPT ![wants[r]] = Free]

\* btcd answers, or with an error or timestamps that are of no use.
NodeAnswers(r, value) ==
    /\ up
    /\ at[r] = "asking"
    /\ wire' = Append(wire, [reader |-> r, height |-> value])
    /\ at' = [at EXCEPT ![r] = "asked"]
    /\ UNCHANGED <<nodeVars, joinVars, blockVars, cacheVars, wants, got,
                   history>>

Answers(r) == NodeAnswers(r, tip)
AnswerFails(r) == NodeAnswers(r, None)

\* A failed scan caches nothing; a failed measurement the target time.
Result(r) == IF got[r] = None THEN Fallback ELSE got[r]

\* What was fetched is cached with the time of now, whatever happened since.
Stores(r) ==
    /\ at[r] = "answered"
    /\ mutex[wants[r]] \in {Free, r}
    /\ IF got[r] = None /\ wants[r] = "totals"
       THEN UNCHANGED <<cache, age, raced>>
       ELSE /\ cache' = [cache EXCEPT ![wants[r]] = Result(r)]
            /\ age' = [age EXCEPT ![wants[r]] = 0]
            /\ raced' = [raced EXCEPT ![wants[r]] = missed[r]]
    /\ mutex' = [mutex EXCEPT ![wants[r]] = Free]
    /\ at' = [at EXCEPT ![r] = "idle"]
    /\ wants' = [wants EXCEPT ![r] = None]
    /\ got' = [got EXCEPT ![r] = None]
    /\ missed' = [missed EXCEPT ![r] = FALSE]
    /\ UNCHANGED <<nodeVars, wire, joinVars, blockVars>>

Tick ==
    /\ age' = [c \in Cache |-> IF age[c] < TTL THEN age[c] + 1 ELSE TTL]
    /\ UNCHANGED <<nodeVars, wire, joinVars, blockVars, mutex, cache, readVars,
                   history>>

-----------------------------------------------------------------------------
Init ==
    /\ tip = 0
    /\ up = FALSE
    /\ registered = FALSE
    /\ wire = <<>>
    /\ joining = 0
    /\ ready = FALSE
    /\ last = 0
    /\ handler = "idle"
    /\ announced = [b \in Block |-> 0]
    /\ mutex = [c \in Cache |-> Free]
    /\ cache = [c \in Cache |-> None]
    /\ age = [c \in Cache |-> TTL]
    /\ at = [r \in Reader |-> "idle"]
    /\ wants = [r \in Reader |-> None]
    /\ got = [r \in Reader |-> None]
    /\ missed = [r \in Reader |-> FALSE]
    /\ raced = [c \in Cache |-> FALSE]

Session == BlockMined \/ Drop \/ Connect \/ Registers \/ RegistrationFails

Callback ==
    TakeBlock \/ ClearTotals \/ ResetInterval \/ TellHub \/ TakeAnswer

Read(r) ==
    Look(r) \/ Served(r) \/ Ask(r) \/ Answers(r) \/ AnswerFails(r) \/ Stores(r)

Next ==
    \/ Session
    \/ Callback
    \/ \E r \in Reader : Read(r)
    \/ Tick

Spec == Init /\ [][Next]_vars

(***************************************************************************)
(* Fairness.  rpcclient keeps trying to connect, the callback goroutine    *)
(* and the readers run, and Go's mutexes starve nobody, hence SF; btcd     *)
(* answers on a session that lasts; time passes.                           *)
(* Sessions stop breaking at some time; whether registrations or RPCs ever *)
(* succeed is left open.                                                   *)
(***************************************************************************)
OutagesEnd == <>[][~Drop]_vars

Fairness ==
    /\ OutagesEnd
    /\ WF_vars(Connect) /\ WF_vars(Registers \/ RegistrationFails)
    /\ SF_vars(Callback)
    /\ WF_vars(Tick)
    /\ \A r \in Reader : SF_vars(Read(r) /\ at[r] # "idle")

FairSpec == Spec /\ Fairness

-----------------------------------------------------------------------------
(* Properties *)

TypeOK ==
    /\ tip \in Value
    /\ up \in BOOLEAN
    /\ registered \in BOOLEAN
    /\ registered => up
    /\ wire \in Seq(Item)
    /\ joining \in 0 .. MaxJoins
    /\ ready \in BOOLEAN
    /\ last \in Value
    /\ handler \in Cache \cup {"idle", "hub"}
    /\ announced \in [Block -> Nat]
    /\ mutex \in [Cache -> Reader \cup {Free}]
    /\ cache \in [Cache -> Value \cup {None, Fallback}]
    /\ age \in [Cache -> 0 .. TTL]
    /\ at \in [Reader -> {"idle", "looking", "asking", "asked", "answered"}]
    /\ wants \in [Reader -> Cache \cup {None}]
    /\ got \in [Reader -> Value \cup {None}]
    /\ missed \in [Reader -> BOOLEAN]
    /\ raced \in [Cache -> BOOLEAN]

\* "OnBlock fires once per newly connected block (deduplicated across btcd's
\* two block-notification variants)": never twice, through any number of
\* sessions and registrations.
OncePerBlock == \A b \in Block : announced[b] <= 1

\* Between callbacks, what a cache serves is at least as new as the last
\* announced block, unless its fetch was under way when the block came (or
\* it is the fallback).  Blocks that come without an announcement, while the
\* session is down, are excepted by what "announced" means.
CurrentUnlessRaced ==
    handler = "idle" =>
        \A c \in Cache :
            Valid(c) /\ cache[c] # Fallback /\ ~raced[c] => cache[c] >= last

\* The callback goroutine and the readers never wait for each other: every
\* lookup returns, although its answer comes through the goroutine that also
\* needs the caches' mutexes.
LookupsReturn == \A r \in Reader : at[r] # "idle" ~> at[r] = "idle"

\* Once no blocks come, no cache serves an outdated value for good: neither
\* one stored after its invalidation nor one whose block was missed.
CachesSettle ==
    <>[](\A c \in Cache : Valid(c) => cache[c] \in {tip, Fallback})
=============================================================================
