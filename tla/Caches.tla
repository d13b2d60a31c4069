------------------------------- MODULE Caches -------------------------------
(***************************************************************************)
(* The three read-through caches in Redis: the rules of a feature flag     *)
(* (app/services/feature_flag_service.py), the organization of a subdomain *)
(* and the plan of a user (app/core/middleware.py).  A request that misses *)
(* reads the row and stores it for ten minutes or an hour, one command at  *)
(* a time.  Saving a flag in the admin panel clears its entry, before the  *)
(* row is committed; nothing ever clears the other two.                    *)
(***************************************************************************)
CONSTANTS
    Req,        \* requests in flight at once
    Flag,       \* names of feature flags:  ff:{name}
    Slug,       \* subdomains:              subdomain:{slug}
    Member,     \* users:                   user_plan:{user_id}
    Value,      \* what a row may say
    None        \* no such row, no such key

ASSUME CachesAssumption ==
    /\ Flag \cap Slug = {} /\ Flag \cap Member = {} /\ Slug \cap Member = {}
    /\ None \notin Value \cup Flag \cup Slug \cup Member

Key == Flag \cup Slug \cup Member

VARIABLES
    row,        \* what the database says under each key
    cache,      \* what Redis says
    pc,         \* what request r does next
    key,        \* the key it is about
    got,        \* what it has read, or is to save
    fresh,      \* history: the row has not changed since request r read it
    raced       \* history: the entry may be, or become, older than the row

reqVars == <<pc, key, got>>
vars == <<row, cache, reqVars, fresh, raced>>

Places == {"idle", "get", "select", "store", "use",
           "del", "commit", "blind", "saved"}

Init ==
    /\ row \in [Key -> {None}]
    /\ cache = [k \in Key |-> None]
    /\ pc = [r \in Req |-> "idle"]
    /\ key = [r \in Req |-> None]
    /\ got = [r \in Req |-> None]
    /\ fresh = [r \in Req |-> FALSE]
    /\ raced = [k \in Key |-> FALSE]
-----------------------------------------------------------------------------
Goto(r, place) == pc' = [pc EXCEPT ![r] = place]

Begin(r, place, k, v) ==
    /\ pc[r] = "idle"
    /\ Goto(r, place)
    /\ key' = [key EXCEPT ![r] = k]
    /\ got' = [got EXCEPT ![r] = v]

End(r) ==
    /\ Goto(r, "idle")
    /\ key' = [key EXCEPT ![r] = None]
    /\ got' = [got EXCEPT ![r] = None]

(* The entry of k leaves Redis. *)
Clear(k) ==
    /\ cache' = [cache EXCEPT ![k] = None]
    /\ raced' = [raced EXCEPT ![k] = FALSE]

(* Row k changes under the requests that have read it. *)
Write(k, v) ==
    /\ row' = [row EXCEPT ![k] = v]
    /\ fresh' = [r \in Req |-> fresh[r] /\ key[r] # k]
-----------------------------------------------------------------------------
(* A request needs a flag, the organization of its host, or the plan of    *)
(* its user.                                                               *)
Request(r, k) ==
    /\ Begin(r, "get", k, None)
    /\ UNCHANGED <<row, cache, fresh, raced>>

(* Mutant: a hit is stored again, for another ten minutes. *)
GetProlongs(r) ==
    LET hit == cache[key[r]] IN
    /\ pc[r] = "get"
    /\ got' = [got EXCEPT ![r] = hit]
    /\ Goto(r, IF hit = None THEN "select" ELSE "store")
    /\ UNCHANGED <<row, cache, key, fresh, raced>>

Get(r) ==
    LET hit == cache[key[r]] IN
    /\ pc[r] = "get"
    /\ got' = [got EXCEPT ![r] = hit]
    /\ Goto(r, IF hit = None THEN "select" ELSE "use")
    /\ UNCHANGED <<row, cache, key, fresh, raced>>

(* Redis raises: flags and subdomains are read from the database, the plan *)
(* stays "free".                                                           *)
GetFails(r) ==
    /\ pc[r] = "get"
    /\ Goto(r, IF key[r] \in Member THEN "use" ELSE "select")
    /\ UNCHANGED <<row, cache, key, got, fresh, raced>>

(* A missing row is not cached.  (A plan takes two queries, by way of the *)
(* user's organization; the second one is this step.)                      *)
Select(r) ==
    LET found == row[key[r]] IN
    /\ pc[r] = "select"
    /\ got' = [got EXCEPT ![r] = found]
    /\ fresh' = [fresh EXCEPT ![r] = TRUE]
    /\ Goto(r, IF found = None THEN "use" ELSE "store")
    /\ UNCHANGED <<row, cache, key, raced>>

(* Mutant: key and value are swapped. *)
StoreSwapped(r) ==
    /\ pc[r] = "store"
    /\ cache' = [cache EXCEPT ![key[r]] = key[r]]
    /\ Goto(r, "use")
    /\ UNCHANGED <<row, key, got, fresh, raced>>

(* SETEX.  What is stored may be older than the row, or become so when a   *)
(* save that has cleared the entry commits.                                *)
Store(r) ==
    LET k == key[r] IN
    /\ pc[r] = "store"
    /\ cache' = [cache EXCEPT ![k] = got[r]]
    /\ raced' = [raced EXCEPT ![k] =
                   \/ ~fresh[r]
                   \/ \E q \in Req : key[q] = k /\ pc[q] \in {"commit", "blind"}]
    /\ Goto(r, "use")
    /\ UNCHANGED <<row, key, got, fresh>>

(* Redis raises: the request goes on with what it has read. *)
StoreFails(r) ==
    /\ pc[r] = "store"
    /\ Goto(r, "use")
    /\ UNCHANGED <<row, cache, key, got, fresh, raced>>

(* The request decides on what it has got. *)
Use(r) ==
    /\ pc[r] = "use"
    /\ End(r)
    /\ UNCHANGED <<row, cache, fresh, raced>>
-----------------------------------------------------------------------------
(* FeatureFlagAdmin: a flag is created, changed or deleted.  *)
Save(r, k, v) ==
    /\ row[k] # v
    /\ Begin(r, "del", k, v)
    /\ UNCHANGED <<row, cache, fresh, raced>>

(* Mutant: the entry is cleared under another name. *)
InvalidateOtherKey(r) ==
    /\ pc[r] = "del"
    /\ Goto(r, "commit")
    /\ UNCHANGED <<row, cache, key, got, fresh, raced>>

(* on_model_change, on_model_delete: called before the commit. *)
Invalidate(r) ==
    /\ pc[r] = "del"
    /\ Clear(key[r])
    /\ Goto(r, "commit")
    /\ UNCHANGED <<row, key, got, fresh>>

(* The entry stays: Redis raises, which is ignored, or the flag is being   *)
(* created and has no name yet.                                            *)
InvalidateFails(r) ==
    /\ pc[r] = "del"
    /\ raced' = [raced EXCEPT ![key[r]] = TRUE]
    /\ Goto(r, "blind")
    /\ UNCHANGED <<row, cache, key, got, fresh>>

(* The panel commits the row. *)
Commit(r) ==
    /\ pc[r] \in {"commit", "blind"}
    /\ Write(key[r], got[r])
    /\ IF pc[r] = "commit"
       THEN Goto(r, "saved") /\ UNCHANGED <<key, got>>
       ELSE End(r)
    /\ UNCHANGED <<cache, raced>>

Saved(r) ==
    /\ pc[r] = "saved"
    /\ End(r)
    /\ UNCHANGED <<row, cache, fresh, raced>>

(* The request fails, or its process stops. *)
Fail(r) ==
    /\ pc[r] # "idle"
    /\ End(r)
    /\ UNCHANGED <<row, cache, fresh, raced>>

(* An organization is renamed, deactivated or gets another plan, or a user *)
(* another organization: no cache is told.                                 *)
Change(k, v) ==
    /\ row[k] # v
    /\ Write(k, v)
    /\ UNCHANGED <<cache, reqVars, raced>>

(* The time to live of an entry passes. *)
Lapse(k) ==
    /\ cache[k] # None
    /\ Clear(k)
    /\ UNCHANGED <<row, reqVars, fresh>>

Progress(r) ==
    \/ Get(r) \/ Select(r) \/ Store(r) \/ Use(r)
    \/ Invalidate(r) \/ Commit(r) \/ Saved(r)

Next ==
    \/ \E r \in Req :
          \/ \E k \in Key : Request(r, k)
          \/ \E k \in Flag, v \in Value \cup {None} : Save(r, k, v)
          \/ Progress(r)
          \/ GetFails(r) \/ StoreFails(r) \/ InvalidateFails(r) \/ Fail(r)
    \/ \E k \in Slug \cup Member, v \in Value \cup {None} : Change(k, v)
    \/ \E k \in Key : Lapse(k)

Spec == Init /\ [][Next]_vars

(* Requests run on, and time passes. *)
FairSpec ==
    /\ Spec
    /\ \A r \in Req : WF_vars(Progress(r))
    /\ \A k \in Key : WF_vars(Lapse(k))
-----------------------------------------------------------------------------
TypeOK ==
    /\ row \in [Key -> Value \cup {None}]
    /\ cache \in [Key -> Value \cup {None}]
    /\ pc \in [Req -> Places]
    /\ key \in [Req -> Key \cup {None}]
    /\ got \in [Req -> Value \cup {None}]
    /\ fresh \in [Req -> BOOLEAN]
    /\ raced \in [Key -> BOOLEAN]

(* The rules of a flag in Redis are those in the database, unless a reader *)
(* stored rules that had been changed since it read them, or stored them   *)
(* between the DEL and the commit of a save, or a save could not clear     *)
(* the entry (feature_flag_service.py:52-60, admin/views.py:116-126).      *)
FlagFreshUnlessRaced ==
    \A k \in Flag : raced[k] \/ cache[k] \in {None, row[k]}

(* Once a row has changed for the last time, Redis is right about it in    *)
(* the end, whatever slow readers still store: an entry is not prolonged   *)
(* by those who read it (feature_flag_service.py:31-60, middleware.py:     *)
(* 69-95, 106-131).                                                        *)
ChangesCount ==
    \A k \in Key, v \in Value \cup {None} :
        <>[](row[k] = v) => <>[](cache[k] \in {None, v})

(* "Invalidate cache on creation or update." (admin/views.py:120): when a  *)
(* save that has cleared the entry is answered, the rules it replaced are  *)
(* not in the cache.                                                       *)
InvalidatedOnSave ==
    \A r \in Req : pc[r] = "saved" /\ row[key[r]] = got[r]
        => cache[key[r]] \in {None, got[r]}
-----------------------------------------------------------------------------
(* A request in flight is about a key. *)
KeyInv == \A r \in Req : pc[r] # "idle" => key[r] \in Key

(* While a save has yet to commit, the entry is empty or marked. *)
Marked ==
    \A r \in Req : pc[r] \in {"commit", "blind"} =>
        raced[key[r]] \/ cache[key[r]] = None

(* What a fresh request is about to store is what the row says. *)
ReadInv ==
    \A r \in Req : pc[r] = "store" /\ fresh[r] => got[r] = row[key[r]]

(* The inductive invariant behind FlagFreshUnlessRaced. *)
IInv == TypeOK /\ KeyInv /\ Marked /\ ReadInv /\ FlagFreshUnlessRaced
=============================================================================
