---------------------------- MODULE SchemaLoader ----------------------------
(***************************************************************************)
(* CachingLoader of schema/loader.go, called by any number of goroutines.  *)
(*                                                                         *)
(* The cache is a sync.Map: a Load or a Store is one step, but nothing     *)
(* makes the two Loads, the HTTP request and the Store of one call a unit. *)
(* A key is a URL with or without its protocol; the loader first looks for *)
(* the trimmed key, then for the full URL, and stores what it fetched      *)
(* under the full URL.  The server may answer every request differently.   *)
(*                                                                         *)
(* EnableHTTPCache assigns the loaders of the two protocols one after the  *)
(* other; until then a call goes to the library's own HTTP loader.         *)
(***************************************************************************)
CONSTANTS
  Procs,       \* goroutines that compile or validate schemas
  NoProtocol,  \* what TrimPrefix leaves of a protocol
  Paths,       \* a URL without its protocol
  Contents,    \* schema documents
  NoSchema,    \* a miss of sync.Map.Load
  Seeds        \* the map given to NewCachingLoader

Protocols == {"http", "https"}
Urls == [protocol : Protocols, path : Paths]
Keys == [protocol : Protocols \cup {NoProtocol}, path : Paths]

ASSUME SeedsAssumption ==
  /\ NoProtocol \notin Protocols
  /\ NoSchema \notin Contents
  /\ DOMAIN Seeds \subseteq Keys
  /\ \A k \in DOMAIN Seeds : Seeds[k] \in Contents

VARIABLES
  schemas,   \* cl.schemas
  loaders,   \* jsonschema.Loaders: "http" (the library's) or "caching"
  pc,        \* where each goroutine is in the loader function
  url,       \* its argument
  body,      \* what it read: from the cache, from the network, or NoSchema
  known      \* was the URL answered by the cache when the call began?

callVars == <<pc, url, body, known>>
vars     == <<schemas, loaders, pc, url, body, known>>

TrimPrefix(u) == [protocol |-> NoProtocol, path |-> u.path]
Cached(u)     == schemas[TrimPrefix(u)] # NoSchema \/ schemas[u] # NoSchema

(* NewCachingLoader(schemas)                                               *)
Init ==
  /\ schemas = [k \in Keys |-> IF k \in DOMAIN Seeds THEN Seeds[k] ELSE NoSchema]
  /\ loaders = [q \in Protocols |-> "http"]
  /\ pc = [p \in Procs |-> "idle"]
  /\ url \in [Procs -> Urls]
  /\ body = [p \in Procs |-> NoSchema]
  /\ known = [p \in Procs |-> FALSE]

(* EnableHTTPCache: two assignments, first the one for http.               *)
EnableHTTPCache(q) ==
  /\ loaders[q] = "http"
  /\ q = "https" => loaders["http"] = "caching"
  /\ loaders' = [loaders EXCEPT ![q] = "caching"]
  /\ UNCHANGED <<schemas, callVars>>

(* The schema compiler picks the loader of the protocol.                   *)
Call(p, u) ==
  /\ pc[p] \in {"idle", "returned", "failed"}
  /\ pc' = [pc EXCEPT ![p] = IF loaders[u.protocol] = "caching" THEN "trimmed" ELSE "direct"]
  /\ url' = [url EXCEPT ![p] = u]
  /\ body' = [body EXCEPT ![p] = NoSchema]
  /\ known' = [known EXCEPT ![p] = Cached(u)]
  /\ UNCHANGED <<schemas, loaders>>

(* Mutant: the key is returned in place of the contents.                   *)
LoadKey(p, key, at, next) ==
  /\ pc[p] = at
  /\ body' = [body EXCEPT ![p] = IF schemas[key] # NoSchema THEN key ELSE NoSchema]
  /\ pc' = [pc EXCEPT ![p] = IF schemas[key] # NoSchema THEN "returned" ELSE next]
  /\ UNCHANGED <<schemas, loaders, url, known>>

(* cl.schemas.Load(key): return a hit, else go on.                         *)
Load(p, key, at, next) ==
  /\ pc[p] = at
  /\ body' = [body EXCEPT ![p] = schemas[key]]
  /\ pc' = [pc EXCEPT ![p] = IF schemas[key] # NoSchema THEN "returned" ELSE next]
  /\ UNCHANGED <<schemas, loaders, url, known>>

(* Mutant: the fully qualified URL is not looked up.                       *)
LoadTrimmedOnly(p) == Load(p, TrimPrefix(url[p]), "trimmed", "fetch")

LoadTrimmed(p) == Load(p, TrimPrefix(url[p]), "trimmed", "full")

(* Mutant: a miss starts over.                                             *)
LoadFullAgain(p) == Load(p, url[p], "full", "trimmed")

LoadFull(p) == Load(p, url[p], "full", "fetch")

(* httploader.Load and io.ReadAll succeed; the library's own loader        *)
(* returns the body without caching it.                                    *)
Fetch(p, content) ==
  /\ pc[p] \in {"fetch", "direct"}
  /\ body' = [body EXCEPT ![p] = content]
  /\ pc' = [pc EXCEPT ![p] = IF pc[p] = "fetch" THEN "store" ELSE "returned"]
  /\ UNCHANGED <<schemas, loaders, url, known>>

(* ... or one of them fails, at the latest when the client's timeout ends. *)
FetchFails(p) ==
  /\ pc[p] \in {"fetch", "direct"}
  /\ pc' = [pc EXCEPT ![p] = "failed"]
  /\ UNCHANGED <<schemas, loaders, url, body, known>>

Store(p) ==
  /\ pc[p] = "store"
  /\ schemas' = [schemas EXCEPT ![url[p]] = body[p]]
  /\ pc' = [pc EXCEPT ![p] = "returned"]
  /\ UNCHANGED <<loaders, url, body, known>>

Step(p) ==
  \/ LoadTrimmed(p)
  \/ LoadFull(p)
  \/ \E content \in Contents : Fetch(p, content)
  \/ FetchFails(p)
  \/ Store(p)

Next ==
  \/ \E q \in Protocols : EnableHTTPCache(q)
  \/ \E p \in Procs, u \in Urls : Call(p, u)
  \/ \E p \in Procs : Step(p)

(* A goroutine inside the loader goes on: Go schedules it, and the HTTP    *)
(* client of schema/jsonschema.go has a timeout of ten seconds.            *)
Fairness == \A p \in Procs : WF_vars(Step(p))

Spec == Init /\ [][Next]_vars /\ Fairness

(***************************************************************************)
(* Properties.                                                             *)
(***************************************************************************)
Points == {"idle", "direct", "trimmed", "full", "fetch", "store", "returned", "failed"}

(* Every variable has its type, and only contents are ever stored.         *)
TypeOK ==
  /\ schemas \in [Keys -> Contents \cup {NoSchema}]
  /\ loaders \in [Protocols -> {"http", "caching"}]
  /\ pc \in [Procs -> Points]
  /\ url \in [Procs -> Urls]
  /\ body \in [Procs -> Contents \cup {NoSchema}]
  /\ known \in [Procs -> BOOLEAN]

(* A schema given to NewCachingLoader is never replaced by what a server   *)
(* sends, whoever fetches what at the same time, and a caching call for it *)
(* never reaches the network, with either protocol and with either form of *)
(* the key.                                                                *)
Seeded(u) == {u, TrimPrefix(u)} \cap DOMAIN Seeds # {}

SeedsPrevail ==
  /\ \A k \in DOMAIN Seeds : schemas[k] = Seeds[k]
  /\ \A p \in Procs : pc[p] \in {"fetch", "store"} => ~Seeded(url[p])

(* "cache and prevent future lookups": a call that begins when the cache   *)
(* holds its URL never goes to the network, even while slower calls that   *)
(* began earlier are still storing older answers.                          *)
PreventsFutureLookups ==
  \A p \in Procs : pc[p] \in {"fetch", "store"} => ~known[p]

(* Every call returns a schema or an error.                                *)
CallsReturn ==
  \A p \in Procs :
    pc[p] \in {"direct", "trimmed", "full", "fetch", "store"} ~> pc[p] \in {"returned", "failed"}
=============================================================================
