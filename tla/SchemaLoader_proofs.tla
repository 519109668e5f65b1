------------------------- MODULE SchemaLoader_proofs -------------------------
(***************************************************************************)
(* Proofs about the caching schema loader, for every number of goroutines, *)
(* every set of URLs, every seed map and every answer of the servers.      *)
(***************************************************************************)
EXTENDS SchemaLoader, TLAPS

(* What a goroutine has read before it stores, and what a miss of the      *)
(* first lookup told it.                                                   *)
CallInv ==
  \A p \in Procs :
    /\ pc[p] = "store" => body[p] \in Contents
    /\ pc[p] = "full" => TrimPrefix(url[p]) \notin DOMAIN Seeds
    /\ pc[p] = "trimmed" /\ known[p] => Cached(url[p])
    /\ pc[p] = "full" /\ known[p] => schemas[url[p]] # NoSchema

LoaderInv == TypeOK /\ CallInv /\ SeedsPrevail /\ PreventsFutureLookups

(* A URL is a key, with and without its protocol, and the two differ.      *)
LEMMA TrimKey ==
  ASSUME NEW u \in Urls
  PROVE  u \in Keys /\ TrimPrefix(u) \in Keys /\ TrimPrefix(u) # u
BY SeedsAssumption DEF Urls, Keys, TrimPrefix

(* What the other goroutines rely on: hits stay hits, seeds stay seeds.    *)
Kept ==
  /\ \A k \in Keys : schemas[k] # NoSchema => schemas'[k] # NoSchema
  /\ \A k \in DOMAIN Seeds : schemas'[k] = Seeds[k]

(* Goroutine p keeps its place.                                            *)
Stays(p) == pc'[p] = pc[p] /\ url'[p] = url[p] /\ body'[p] = body[p] /\ known'[p] = known[p]

GoodCall(p) ==
  /\ pc[p] = "store" => body[p] \in Contents
  /\ pc[p] = "full" => TrimPrefix(url[p]) \notin DOMAIN Seeds
  /\ pc[p] = "trimmed" /\ known[p] => Cached(url[p])
  /\ pc[p] = "full" /\ known[p] => schemas[url[p]] # NoSchema
  /\ pc[p] \in {"fetch", "store"} => ~Seeded(url[p])
  /\ pc[p] \in {"fetch", "store"} => ~known[p]

LEMMA GoodCalls ==
  LoaderInv <=> /\ TypeOK
                /\ \A k \in DOMAIN Seeds : schemas[k] = Seeds[k]
                /\ \A p \in Procs : GoodCall(p)
BY DEF LoaderInv, CallInv, SeedsPrevail, PreventsFutureLookups, GoodCall

LEMMA StaysGood ==
  ASSUME TypeOK, Kept, NEW p \in Procs, GoodCall(p), Stays(p)
  PROVE  GoodCall(p)'
<1>1. url[p] \in Urls
  BY DEF TypeOK
<1>2. url[p] \in Keys /\ TrimPrefix(url[p]) \in Keys
  BY <1>1, TrimKey
<1>3. Cached(url[p]) => Cached(url[p])'
  BY <1>2 DEF Kept, Stays, Cached, TrimPrefix
<1>4. schemas[url[p]] # NoSchema => (schemas[url[p]] # NoSchema)'
  BY <1>2 DEF Kept, Stays
<1>5. Seeded(url[p])' <=> Seeded(url[p])
  BY DEF Seeded, Stays, TrimPrefix
<1>6. TrimPrefix(url[p])' = TrimPrefix(url[p])
  BY DEF TrimPrefix, Stays
<1> QED
  BY <1>3, <1>4, <1>5, <1>6 DEF GoodCall, Stays

LEMMA InitInv == Init => LoaderInv
<1> SUFFICES ASSUME Init PROVE LoaderInv
  OBVIOUS
<1>1. TypeOK
  BY SeedsAssumption DEF Init, TypeOK, Points
<1>2. \A k \in DOMAIN Seeds : schemas[k] = Seeds[k]
  BY SeedsAssumption DEF Init
<1>3. \A p \in Procs : GoodCall(p)
  BY DEF Init, GoodCall
<1> QED
  BY <1>1, <1>2, <1>3, GoodCalls

LEMMA TypeStep ==
  ASSUME LoaderInv, Next
  PROVE  TypeOK'
<1>1. TypeOK /\ CallInv
  BY DEF LoaderInv
<1>2. ASSUME NEW q \in Protocols, EnableHTTPCache(q) PROVE TypeOK'
  BY <1>1, <1>2 DEF EnableHTTPCache, TypeOK, callVars
<1>3. ASSUME NEW p \in Procs, NEW u \in Urls, Call(p, u) PROVE TypeOK'
  BY <1>1, <1>3 DEF Call, TypeOK, Cached, Points
<1>4. ASSUME NEW p \in Procs, NEW key \in Keys, NEW at, NEW next \in Points, Load(p, key, at, next)
      PROVE  TypeOK'
  BY <1>1, <1>4 DEF Load, TypeOK, Points
<1>5. ASSUME NEW p \in Procs, LoadTrimmed(p) \/ LoadFull(p) PROVE TypeOK'
  <2>1. url[p] \in Keys /\ TrimPrefix(url[p]) \in Keys
    BY <1>1, TrimKey DEF TypeOK
  <2> QED BY <1>4, <1>5, <2>1 DEF LoadTrimmed, LoadFull, Points
<1>6. ASSUME NEW p \in Procs, NEW content \in Contents, Fetch(p, content) PROVE TypeOK'
  BY <1>1, <1>6 DEF Fetch, TypeOK, Points
<1>7. ASSUME NEW p \in Procs, FetchFails(p) PROVE TypeOK'
  BY <1>1, <1>7 DEF FetchFails, TypeOK, Points
<1>8. ASSUME NEW p \in Procs, Store(p) PROVE TypeOK'
  BY <1>1, <1>8 DEF Store, TypeOK, Points
<1> QED
  BY <1>2, <1>3, <1>5, <1>6, <1>7, <1>8 DEF Next, Step

(* Seeds and hits survive every step.                                      *)
LEMMA KeptStep ==
  ASSUME LoaderInv, Next
  PROVE  Kept
<1>1. TypeOK /\ CallInv /\ SeedsPrevail
  BY DEF LoaderInv
<1>2. CASE UNCHANGED schemas
  BY <1>1, <1>2 DEF Kept, SeedsPrevail
<1>3. ASSUME NEW p \in Procs, Store(p) PROVE Kept
  <2>1. url[p] \notin DOMAIN Seeds /\ body[p] # NoSchema
    BY <1>1, <1>3, SeedsAssumption DEF Store, CallInv, SeedsPrevail, Seeded
  <2> QED
    BY <1>1, <1>3, <2>1, SeedsAssumption DEF Store, Kept, SeedsPrevail, TypeOK
<1> QED
  BY <1>2, <1>3 DEF Next, Step, EnableHTTPCache, Call, LoadTrimmed, LoadFull, Load, Fetch,
                    FetchFails

(* The goroutine that moves.                                               *)
LEMMA CallGood ==
  ASSUME LoaderInv, Next, TypeOK', Kept, NEW p \in Procs
  PROVE  GoodCall(p)'
<1>1. TypeOK /\ GoodCall(p) /\ SeedsPrevail
  BY GoodCalls DEF LoaderInv
<1>2. url[p] \in Urls /\ url[p] \in Keys /\ TrimPrefix(url[p]) \in Keys /\ pc \in [Procs -> Points]
  BY <1>1, TrimKey DEF TypeOK
<1>3. CASE Stays(p)
  BY <1>1, <1>3, StaysGood
<1>4. ASSUME NEW u \in Urls, Call(p, u) PROVE GoodCall(p)'
  <2>1. /\ pc'[p] \in {"trimmed", "direct"} /\ url'[p] = u /\ known'[p] = Cached(u)
        /\ UNCHANGED schemas
    BY <1>1, <1>4 DEF Call, TypeOK
  <2>2. Cached(url[p])' <=> Cached(u)
    BY <2>1 DEF Cached, TrimPrefix
  <2> QED BY <2>1, <2>2 DEF GoodCall
<1>5. ASSUME LoadTrimmed(p) PROVE GoodCall(p)'
  <2>1. /\ pc[p] = "trimmed" /\ url' = url /\ known' = known /\ schemas' = schemas
        /\ pc'[p] = IF schemas[TrimPrefix(url[p])] # NoSchema THEN "returned" ELSE "full"
    BY <1>1, <1>5 DEF LoadTrimmed, Load, TypeOK
  <2>2. CASE pc'[p] = "returned"
    BY <2>2 DEF GoodCall
  <2>3. CASE schemas[TrimPrefix(url[p])] = NoSchema
    <3>1. TrimPrefix(url[p]) \notin DOMAIN Seeds
      BY <1>1, <2>3, SeedsAssumption DEF SeedsPrevail
    <3>2. known[p] => schemas[url[p]] # NoSchema
      BY <1>1, <2>1, <2>3 DEF GoodCall, Cached
    <3>3. TrimPrefix(url[p])' = TrimPrefix(url[p])
      BY <2>1 DEF TrimPrefix
    <3> QED BY <2>1, <2>3, <3>1, <3>2, <3>3 DEF GoodCall
  <2> QED BY <2>1, <2>2, <2>3
<1>6. ASSUME LoadFull(p) PROVE GoodCall(p)'
  <2>1. /\ pc[p] = "full" /\ url' = url /\ known' = known /\ schemas' = schemas
        /\ pc'[p] = IF schemas[url[p]] # NoSchema THEN "returned" ELSE "fetch"
    BY <1>1, <1>6 DEF LoadFull, Load, TypeOK
  <2>2. CASE pc'[p] = "returned"
    BY <2>2 DEF GoodCall
  <2>3. CASE schemas[url[p]] = NoSchema
    <3>1. url[p] \notin DOMAIN Seeds /\ TrimPrefix(url[p]) \notin DOMAIN Seeds /\ ~known[p]
      BY <1>1, <2>1, <2>3, SeedsAssumption DEF SeedsPrevail, GoodCall
    <3>2. ~Seeded(url[p])'
      BY <2>1, <3>1 DEF Seeded, TrimPrefix
    <3> QED BY <2>1, <2>3, <3>1, <3>2 DEF GoodCall
  <2> QED BY <2>1, <2>2, <2>3
<1>7. ASSUME NEW content \in Contents, Fetch(p, content) PROVE GoodCall(p)'
  <2>1. /\ pc[p] \in {"fetch", "direct"} /\ url' = url /\ known' = known
        /\ body'[p] \in Contents
        /\ pc'[p] = IF pc[p] = "fetch" THEN "store" ELSE "returned"
    BY <1>1, <1>7 DEF Fetch, TypeOK
  <2>2. pc[p] = "fetch" => ~Seeded(url[p])'
    BY <1>1, <2>1 DEF GoodCall, Seeded, TrimPrefix
  <2> QED BY <1>1, <2>1, <2>2 DEF GoodCall
<1>8. ASSUME FetchFails(p) \/ Store(p) PROVE GoodCall(p)'
  <2>1. pc'[p] \in {"failed", "returned"}
    BY <1>1, <1>8 DEF FetchFails, Store, TypeOK
  <2> QED BY <2>1 DEF GoodCall
<1>9. ASSUME NEW r \in Procs, r # p, (\E u \in Urls : Call(r, u)) \/ Step(r)
      PROVE  Stays(p)
  BY <1>1, <1>2, <1>9 DEF Call, Step, LoadTrimmed, LoadFull, Load, Fetch, FetchFails, Store,
                          Stays, TypeOK
<1>10. ASSUME NEW q \in Protocols, EnableHTTPCache(q)
       PROVE  Stays(p)
  BY <1>10 DEF EnableHTTPCache, Stays, callVars
<1>11. (\E u \in Urls : Call(p, u)) \/ Step(p) => GoodCall(p)'
  BY <1>4, <1>5, <1>6, <1>7, <1>8 DEF Step
<1> QED
  BY <1>3, <1>9, <1>10, <1>11 DEF Next

LEMMA NextInv == LoaderInv /\ [Next]_vars => LoaderInv'
<1> SUFFICES ASSUME LoaderInv, [Next]_vars PROVE LoaderInv'
  OBVIOUS
<1>1. CASE Next
  <2>1. TypeOK' /\ Kept
    BY <1>1, TypeStep, KeptStep
  <2>2. \A p \in Procs : GoodCall(p)'
    BY <1>1, <2>1, CallGood
  <2>3. \A k \in DOMAIN Seeds : schemas'[k] = Seeds[k]
    BY <2>1 DEF Kept
  <2>4. CallInv' /\ SeedsPrevail' /\ PreventsFutureLookups'
    BY <2>2, <2>3 DEF CallInv, SeedsPrevail, PreventsFutureLookups, GoodCall
  <2> QED BY <2>1, <2>4 DEF LoaderInv
<1>2. CASE UNCHANGED vars
  BY <1>2 DEF vars, LoaderInv, TypeOK, CallInv, SeedsPrevail, PreventsFutureLookups, Cached,
              Seeded, TrimPrefix
<1> QED BY <1>1, <1>2

(* The variables of the loader keep their types.                           *)
THEOREM TypeCorrect == Spec => []TypeOK
<1>1. LoaderInv => TypeOK
  BY DEF LoaderInv
<1> QED BY <1>1, InitInv, NextInv, PTL DEF Spec

(* The embedded schemas can neither be replaced by a download nor cause    *)
(* one, under any interleaving of any number of loader calls.              *)
THEOREM LocalSchemasPrevail == Spec => []SeedsPrevail
<1>1. LoaderInv => SeedsPrevail
  BY DEF LoaderInv
<1> QED BY <1>1, InitInv, NextInv, PTL DEF Spec

(* Once a URL is cached, no call that begins afterwards downloads it.      *)
THEOREM CachedIsNeverFetchedAgain == Spec => []PreventsFutureLookups
<1>1. LoaderInv => PreventsFutureLookups
  BY DEF LoaderInv
<1> QED BY <1>1, InitInv, NextInv, PTL DEF Spec
=============================================================================
