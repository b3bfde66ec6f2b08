----------------------------- MODULE MinervaLRU -----------------------------
(***************************************************************************)
(* The epoch cache lru of src/consensus/minerva/minerva.go: newlru and     *)
(* lru.get, which returns the item for an epoch from a simplelru.LRU, or   *)
(* the pre-generated 'future item', or a freshly made one, and generates  *)
(* the item for epoch+1 ahead of time.  get holds lru.mu for its whole    *)
(* body, so concurrent callers are serialised and each call is one step.  *)
(*                                                                         *)
(* An item is the index of the lru.new call that made it; made[i] is the   *)
(* epoch it was made for.  0 is nil.  simplelru (an external package) is   *)
(* modelled by its documented behaviour: Get moves a hit to the most       *)
(* recent end, Add inserts there and evicts from the least recent end      *)
(* beyond the size.                                                        *)
(***************************************************************************)
EXTENDS Naturals, Sequences, SequencesExt

CONSTANTS
  MaxItemsArg,  \* maxItems passed to newlru
  MaxEpoch,     \* maxEpoch
  Requests,     \* epochs callers ask for
  MaxGets       \* calls of get explored, at most

ASSUME MaxItemsArg \in Nat /\ MaxEpoch \in Nat \ {0} /\ MaxGets \in Nat

VARIABLES
  cache,       \* Seq([epoch, item]), least recently used first
  future,      \* lru.future
  futureItem,  \* lru.futureItem
  made,        \* Seq(epoch): the epoch of every item lru.new made
  ret          \* what the last get returned

vars == <<cache, future, futureItem, made, ret>>

(* newlru: maxItems <= 1 is replaced by 5 *)
Size == IF MaxItemsArg <= 1 THEN 5 ELSE MaxItemsArg

Epochs(c) == {c[i].epoch : i \in 1..Len(c)}

(* simplelru.Get: a hit becomes the most recently used *)
LRUTouch(c, e) ==
  LET i == CHOOSE j \in 1..Len(c) : c[j].epoch = e
  IN Append(RemoveAt(c, i), c[i])

(* Mutant: eviction only beyond one more than the size. *)
LRUAddLate(c, e, it) ==
  LET c2 == Append(c, [epoch |-> e, item |-> it])
  IN IF Len(c2) > Size + 1 THEN Tail(c2) ELSE c2

(* simplelru.Add of an absent key, evicting the least recently used *)
LRUAdd(c, e, it) ==
  LET c2 == Append(c, [epoch |-> e, item |-> it])
  IN IF Len(c2) > Size THEN Tail(c2) ELSE c2

Init ==
  /\ cache = <<>>
  /\ future = 0
  /\ futureItem = 0
  /\ made = <<>>
  /\ ret = [epoch |-> 0, item |-> 0, future |-> 0]

(* lru.new, the Dataset constructor NewDataset: a fresh item that holds *)
(* the epoch it is made for; its index is the number of items made.      *)
NewDataset(m, e) == Append(m, e)

(* Mutant: a future item is taken for any epoch up to lru.future. *)
FutureHitLoose(e) == future > 0 /\ future >= e
(* get: lru.future > 0 && lru.future == epoch *)
FutureHit(e) == future > 0 /\ future = e

(* Mutant: the future epoch is recorded but the future item kept. *)
AheadStale(e, m) ==
  IF e < MaxEpoch - 1 /\ future < e + 1
    THEN [made |-> Append(m, e + 1), future |-> e + 1, item |-> futureItem]
    ELSE [made |-> m, future |-> future, item |-> futureItem]
(* get: generate the item for epoch+1 unless lru.future is already ahead *)
Ahead(e, m) ==
  IF e < MaxEpoch - 1 /\ future < e + 1
    THEN [made |-> NewDataset(m, e + 1), future |-> e + 1, item |-> Len(m) + 1]
    ELSE [made |-> m, future |-> future, item |-> futureItem]

(* lru.get(epoch) *)
Get(e) ==
  LET hit == e \in Epochs(cache)
      (* Get or create the item for the requested epoch *)
      m1 == IF hit \/ FutureHit(e) THEN made ELSE NewDataset(made, e)
      item == IF hit THEN cache[CHOOSE i \in 1..Len(cache) : cache[i].epoch = e].item
              ELSE IF FutureHit(e) THEN futureItem ELSE Len(made) + 1
      c1 == IF hit THEN LRUTouch(cache, e) ELSE LRUAdd(cache, e, item)
      a == Ahead(e, m1)
  IN /\ Len(made) < MaxGets
     /\ cache' = c1
     /\ made' = a.made
     /\ future' = a.future
     /\ futureItem' = a.item
     /\ ret' = [epoch |-> e, item |-> item,
                future |-> IF e + 1 # a.future THEN 0 ELSE a.item]

(* Calls stop once MaxGets items have been made. *)
Done ==
  /\ Len(made) >= MaxGets
  /\ UNCHANGED vars

Next == Done \/ \E e \in Requests : Get(e)

Spec == Init /\ [][Next]_vars

-----------------------------------------------------------------------------
Item == 0..Len(made)

TypeOK ==
  /\ cache \in Seq([epoch : Nat, item : 1..Len(made)])
  /\ Len(cache) <= Size
  /\ future \in Nat /\ futureItem \in Item
  /\ made \in Seq(Nat)
  /\ ret \in [epoch : Nat, item : Item, future : Item]

(* get's first result is an item made for the epoch asked for, whether it *)
(* came from the cache, from the future item or from lru.new.             *)
ItemMatchesEpoch == Len(made) > 0 => ret.item # 0 /\ made[ret.item] = ret.epoch

(* The future result, when not nil, is the item for epoch+1, and once    *)
(* lru.future is set the future item kept is the one made for it, so a    *)
(* later get(lru.future) hands out the dataset generated ahead.           *)
FutureMatches ==
  /\ ret.future # 0 => made[ret.future] = ret.epoch + 1
  /\ future > 0 => futureItem # 0 /\ made[futureItem] = future

=============================================================================
