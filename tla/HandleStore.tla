------------------------------ MODULE HandleStore -----------------------------
(***************************************************************************)
(* The global map from ids to native handles (handles.h, handles.cpp).     *)
(* JavaScript only ever holds an id.  Each operation of the C++ class is   *)
(* an action on the two static members; the modules of the primitives      *)
(* extend this one and say what a handle is.                               *)
(***************************************************************************)
EXTENDS Naturals, Functions

VARIABLES store,     \* std::map<uint64_t, std::shared_ptr<BaseHandle>>
          next_id

storeVars == <<store, next_id>>

StoreInit == store = <<>> /\ next_id = 1

LowestFreeId == CHOOSE id \in 1 .. next_id :
                  id \notin DOMAIN store /\ \A i \in 1 .. id - 1 : i \in DOMAIN store

(* The id that Add returns.  Ids count up for the life of the process, and *)
(* 2^64 of them never run out.                                             *)
NewId == next_id

Add(handle) ==
  /\ store' = [id \in DOMAIN store \cup {NewId} |-> IF id = NewId THEN handle ELSE store[id]]
  /\ next_id' = next_id + 1

(* store.erase(id): no error when the id is unknown.                       *)
Remove(id) ==
  /\ store' = Restrict(store, DOMAIN store \ {id})
  /\ UNCHANGED next_id

(* Get returns nullptr for an id that is unknown.                          *)
Stored(id) == id \in DOMAIN store
===============================================================================
