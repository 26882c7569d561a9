----------------------------- MODULE PlanCaches -----------------------------
(***************************************************************************)
(* The plan caches of TensorActor (kernel/tensor) and FftActor              *)
(* (kernel/fft.rs).  A request is reduced to a key; a hit hands out the     *)
(* cached plan, a miss builds one, a library object at a time, and undoes   *)
(* what it has built when a step fails.  A plan is reference counted: a     *)
(* launch may still use it after the cache has evicted it.                  *)
(*                                                                          *)
(* Keys are compared as records: the 64-bit hashes of modes, extents and    *)
(* layout are taken to be free of collisions.                               *)
(***************************************************************************)
EXTENDS Naturals, Sequences, FiniteSets, SequencesExt

CONSTANTS PlanRequests,  \* records with op, shape, operator and layout
          Cap,           \* capacity of each cache
          Slots,         \* launches in flight
          MaxPlans       \* bound on the plans ever built

Operations == {"contract", "binary", "trinary", "permutation", "reduction", "fft_exec", "fft_many"}

\* LruCache takes a NonZeroUsize.
ASSUME PlanCachesAssumption ==
    /\ Cap \in Nat \ {0}
    /\ \A r \in PlanRequests : r.op \in Operations

VARIABLES
    cache,     \* per actor: plans, the most recently used first
    building,  \* per actor: the plan under construction, or NoBuild
    made,      \* the request each plan was built for
    objects,   \* the library objects that exist: <<plan, kind>>
    uses       \* per slot: the request and its plan, or NoUse

planVars == <<cache, building, made, objects, uses>>

Actors  == {"tensor", "fft"}
NoBuild == [rung |-> 0]
NoUse   == [plan |-> 0]

ActorOf(r) == IF r.op \in {"fft_exec", "fft_many"} THEN "fft" ELSE "tensor"

-----------------------------------------------------------------------------
(* Keys.  A request's operator stands for its compute type, its algorithm and
   its element-wise operators, which are folded into the compute tag.  The
   strides of a tensor are in no key; the layout seed of a plan_many is part of
   cuFFT's. *)

PlanKey(kind, shape, tag) == [op_kind |-> kind, modes_extents |-> shape, tag |-> tag]

ContractKey(r)    == PlanKey("Contract", r.shape, r.operator)
BinaryKey(r)      == PlanKey("ElementwiseBinary", r.shape, r.operator)
TrinaryKey(r)     == PlanKey("ElementwiseTrinary", r.shape, r.operator)
PermutationKey(r) == PlanKey("Permutation", r.shape, r.operator)
ReductionKey(r)   == PlanKey("Reduce", r.shape, r.operator)
FftKey(r)         == PlanKey("Fft", r.shape, <<r.operator, r.layout>>)

Key(r) ==
    CASE r.op = "contract"    -> ContractKey(r)
      [] r.op = "binary"      -> BinaryKey(r)
      [] r.op = "trinary"     -> TrinaryKey(r)
      [] r.op = "permutation" -> PermutationKey(r)
      [] r.op = "reduction"   -> ReductionKey(r)
      [] OTHER                -> FftKey(r)

-----------------------------------------------------------------------------
(* Construction: the objects in the order they are created. *)

ContractLadder    == <<"desc_a", "desc_b", "desc_c", "op", "pref", "ws", "plan">>
BinaryLadder      == <<"desc_a", "desc_c", "desc_d", "op", "pref", "ws", "plan">>
TrinaryLadder     == <<"desc_a", "desc_b", "desc_c", "desc_d", "op", "pref", "ws", "plan">>
PermutationLadder == <<"desc_a", "desc_b", "op", "pref", "ws", "plan">>
ReductionLadder   == <<"desc_a", "desc_c", "op", "pref", "ws", "plan">>
FftLadder         == <<"plan">>

Ladder(op) ==
    CASE op = "contract"    -> ContractLadder
      [] op = "binary"      -> BinaryLadder
      [] op = "trinary"     -> TrinaryLadder
      [] op = "permutation" -> PermutationLadder
      [] op = "reduction"   -> ReductionLadder
      [] OTHER              -> FftLadder

\* The workspace estimate is a number; every other rung makes an object.
Objects(p, kinds) == {<<p, k>> : k \in kinds \ {"ws"}}

\* Mutant of Undo: the last rungs forget the preference.
UndoForgetsPreference(op, i) == {Ladder(op)[j] : j \in 1 .. i - 1} \ {"pref"}

\* What the error branch of rung i destroys.
Undo(op, i) == {Ladder(op)[j] : j \in 1 .. i - 1}

\* What the destructor of a finished plan destroys.
Owned(op) == Range(Ladder(op))

-----------------------------------------------------------------------------
Cached(p)  == \E a \in Actors : p \in Range(cache[a])
Used(p)    == \E s \in Slots : uses[s].plan = p
Reserved(s) == \E a \in Actors : building[a].rung > 0 /\ building[a].slot = s
Free(s)    == uses[s] = NoUse /\ ~Reserved(s)

PlanInit ==
    /\ cache = [a \in Actors |-> <<>>]
    /\ building = [a \in Actors |-> NoBuild]
    /\ made = <<>>
    /\ objects = {}
    /\ uses = [s \in Slots |-> NoUse]

\* The places of a's cache with a plan for the key of r.
Hits(r) ==
    LET plans == cache[ActorOf(r)] IN {i \in 1 .. Len(plans) : Key(made[plans[i]]) = Key(r)}

\* The entry at place k comes to the front, those before it move back.
MoveToFront(plans, k) ==
    [i \in 1 .. Len(plans) |-> IF i = 1 THEN plans[k] ELSE IF i <= k THEN plans[i - 1] ELSE plans[i]]

\* A hit: LruCache::get moves the entry to the front; the launch gets an Arc.
Hit(r, s) ==
    LET a == ActorOf(r) IN
    /\ building[a] = NoBuild /\ Free(s)
    /\ \E k \in Hits(r) :
        /\ cache' = [cache EXCEPT ![a] = MoveToFront(@, k)]
        /\ uses' = [uses EXCEPT ![s] = [plan |-> cache[a][k], req |-> r]]
    /\ UNCHANGED <<building, made, objects>>

\* A miss: construction begins.
Miss(r, s) ==
    LET a == ActorOf(r) IN
    /\ building[a] = NoBuild /\ Free(s)
    /\ Hits(r) = {}
    /\ Len(made) < MaxPlans
    /\ made' = Append(made, r)
    /\ building' = [building EXCEPT ![a] = [rung |-> 1, plan |-> Len(made) + 1, req |-> r, slot |-> s]]
    /\ UNCHANGED <<cache, objects, uses>>

CreateObject(a) ==
    LET b == building[a] IN
    /\ b.rung > 0 /\ b.rung <= Len(Ladder(b.req.op))
    /\ objects' = objects \cup Objects(b.plan, {Ladder(b.req.op)[b.rung]})
    /\ building' = [building EXCEPT ![a] = [b EXCEPT !.rung = @ + 1]]
    /\ UNCHANGED <<cache, made, uses>>

\* The library refuses: the request is answered with its error.
CreateFails(a) ==
    LET b == building[a] IN
    /\ b.rung > 0 /\ b.rung <= Len(Ladder(b.req.op))
    /\ objects' = objects \ Objects(b.plan, Undo(b.req.op, b.rung))
    /\ building' = [building EXCEPT ![a] = NoBuild]
    /\ UNCHANGED <<cache, made, uses>>

\* Mutant of Drop: the destructor runs although a launch holds the plan.
DropEvicted(p, still) == Objects(p, Owned(made[p].op))

\* An Arc of p goes; the destructor runs with the last one.
Drop(p, still) == IF still THEN {} ELSE Objects(p, Owned(made[p].op))

\* LruCache::put, which evicts the least recently used entry, and the launch.
Insert(a) ==
    LET b       == building[a]
        full    == Len(cache[a]) >= Cap
        evicted == Last(cache[a]) IN
    /\ b.rung > 0 /\ b.rung > Len(Ladder(b.req.op))
    /\ cache' = [cache EXCEPT ![a] = <<b.plan>> \o IF full THEN Front(@) ELSE @]
    /\ objects' = objects \ (IF full THEN Drop(evicted, Used(evicted)) ELSE {})
    /\ uses' = [uses EXCEPT ![b.slot] = [plan |-> b.plan, req |-> b.req]]
    /\ building' = [building EXCEPT ![a] = NoBuild]
    /\ UNCHANGED made

\* The launch is over: it completed, failed, or found no workspace.
Finish(s) ==
    LET p == uses[s].plan IN
    /\ uses[s] # NoUse
    /\ uses' = [uses EXCEPT ![s] = NoUse]
    /\ objects' = objects \ Drop(p, Cached(p) \/ \E t \in Slots \ {s} : uses[t].plan = p)
    /\ UNCHANGED <<cache, building, made>>

PlanNext ==
    \/ \E r \in PlanRequests, s \in Slots : Hit(r, s) \/ Miss(r, s)
    \/ \E a \in Actors : CreateObject(a) \/ CreateFails(a) \/ Insert(a)
    \/ \E s \in Slots : Finish(s)

PlanSpec == PlanInit /\ [][PlanNext]_planVars

-----------------------------------------------------------------------------
InConstruction(p) == \E a \in Actors : building[a].rung > 0 /\ building[a].plan = p

\* No library object is leaked or destroyed early, whichever construction step
\* fails and whatever is evicted while a launch uses it: finished plans have all
\* their objects as long as the cache or a launch holds them, and nothing else
\* exists but the rungs of a plan under construction.  A launch runs a plan for
\* its own operation, shape and operators.
PlansAccounted ==
    /\ \A p \in DOMAIN made : Cached(p) \/ Used(p) =>
        Objects(p, Owned(made[p].op)) \subseteq objects
    /\ \A o \in objects : Cached(o[1]) \/ Used(o[1]) \/ InConstruction(o[1])
    /\ \A s \in Slots : uses[s] # NoUse =>
        LET r == uses[s].req
            m == made[uses[s].plan] IN
        /\ <<m.shape, m.operator>> = <<r.shape, r.operator>>
        /\ ActorOf(r) = "tensor" => m.op = r.op
=============================================================================
