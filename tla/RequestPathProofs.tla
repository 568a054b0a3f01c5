------------------------- MODULE RequestPathProofs -------------------------
(***************************************************************************)
(* Proofs about RequestPath, for any services, sources, inputs, replicas,  *)
(* requests and clocks.                                                    *)
(***************************************************************************)
EXTENDS RequestPath, TLAPS

(* The created time of a meta is the answering proxy's.                    *)
Stamped(e) == e.answered <= e.created /\ e.created <= e.answered + MaxSkew

(* What is true of an entry under the key k.                               *)
EntryOK(e, k) ==
  /\ e \in Entries
  /\ e.to.path = k
  /\ Stamped(e)
  /\ ~e.only => e.status = 0 /\ e.value = Pieces

(* A request on its way was routed with what its RequestCtx still has.     *)
Grounded(c) ==
  /\ c.input \in Sent
  /\ c.input.path \in Paths
  /\ c.service_data \in ServiceData(c.input.path.service)
  /\ c.service_data # Nil /\ c.service_data.load_balancer
  /\ c.do_cache => Cached(c.service_data, c.input.path.method)

(* The strengthening, for a single RequestCtx.  What lookup found is kept  *)
(* only until the upstream answers.                                        *)
CtxOK(c) ==
  /\ c.pc = "panicked" => c.input.body = NoBody
  /\ c.pc \notin {"idle", "done"} => Grounded(c)
  /\ c.pc \in {"read", "lookup", "hit_filter"} => c.do_cache
  /\ c.pc = "read" => c.input \in Inputs
  /\ c.pc \in {"idle", "read", "lookup"} => c.found = Nil
  /\ c.pc = "hit_filter" => EntryOK(c.found, c.input.path)
  /\ c.pc \in {"peer", "header"} => c.found = Nil \/ EntryOK(c.found, c.input.path)
  /\ c.pc \in {"hit", "stale"} => c.found.to.path = c.input.path
  /\ c.pc = "hit" => c.age <= FreshFor + MaxSkew
  /\ c.pc = "stale" => c.age <= FreshFor + StaleFor + MaxSkew
  /\ c.pc \in {"body", "only", "finish"} => Stamped(c)
  /\ c.pc = "finish" => c.status = 0 /\ c.value = Pieces

Inv ==
  /\ TypeOK
  /\ \A r \in Requests : CtxOK(req[r])
  /\ \A b \in Replicas, k \in Paths :
       cache[b][k] # Nil => EntryOK(cache[b][k], k)

-----------------------------------------------------------------------------
(* Invariance.                                                             *)

(* A request that has been answered, and one that has not been made.       *)
LEMMA RestingCtx ==
  /\ NewCtx \in Ctx /\ CtxOK(NewCtx)
  /\ [NewCtx EXCEPT !.pc = "done"] \in Ctx
  /\ CtxOK([NewCtx EXCEPT !.pc = "done"])
<1>1. NewCtx \in Ctx
  BY RequestAssumption DEF NewCtx, Ctx, Absent
<1>2. NewCtx.pc = "idle" /\ NewCtx.found = Nil
  BY Zenon DEF NewCtx
<1> DEFINE c == [NewCtx EXCEPT !.pc = "done"]
<1>3. c \in Ctx
  BY <1>1, Zenon DEF Ctx
<1>4. c.pc = "done"
  BY <1>1, <1>2, Zenon DEF Ctx
<1> HIDE DEF c
<1>5. CtxOK(NewCtx) /\ CtxOK(c)
  BY <1>2, <1>4, Zenon DEF CtxOK
<1> QED
  BY <1>1, <1>3, <1>5, Zenon DEF c

(* At the start the cache is empty and no request has begun.               *)
LEMMA InitInv == Init => Inv
BY RestingCtx, RequestAssumption DEF Init, Inv, TypeOK

(* A step that changes one RequestCtx for another that is as it should be. *)
LEMMA CtxStep ==
  ASSUME Inv, NEW r \in Requests, NEW c \in Ctx, CtxOK(c),
         req' = [req EXCEPT ![r] = c], UNCHANGED env
  PROVE  Inv'
BY Zenon DEF Inv, TypeOK, env

(* A request that ends leaves nothing behind but what is in Redis.         *)
LEMMA RespondInv ==
  ASSUME Inv, NEW r \in Requests, Respond(r), UNCHANGED env
  PROVE  Inv'
BY CtxStep, RestingCtx, Zenon DEF Respond

(* Stripping headers leaves the path and the body of a request alone.      *)
LEMMA StrippedPath ==
  ASSUME NEW i \in Inputs
  PROVE  /\ Stripped(i).path = i.path /\ Stripped(i).body = i.body
         /\ Stripped(i) \in Sent
BY InputAssumption DEF Stripped, Sent

(* request_filter keeps the ServiceData and the decision it routed with.   *)
LEMMA RequestFilterInv ==
  ASSUME Inv, NEW r \in Requests, RequestFilter(r)
  PROVE  Inv'
<1>1. PICK i \in Inputs, skew \in 0..MaxSkew :
        IF Routed(i.path)
        THEN LET data == services[i.path.service]
                 cached == Cached(data, i.path.method)
             IN  req' = [req EXCEPT ![r].input = i,
                                    ![r].service_data = data,
                                    ![r].do_cache = cached,
                                    ![r].skew = skew,
                                    ![r].pc = IF cached THEN "read" ELSE "peer"]
        ELSE Respond(r)
  BY Zenon DEF RequestFilter
<1>2. UNCHANGED env
  BY Zenon DEF RequestFilter
<1>3. CASE ~Routed(i.path)
  BY <1>1, <1>2, <1>3, RespondInv, Zenon
<1>4. CASE Routed(i.path)
  <2> DEFINE data == services[i.path.service]
             cached == Cached(data, i.path.method)
             c == [req[r] EXCEPT !.input = i, !.service_data = data,
                                 !.do_cache = cached, !.skew = skew,
                                 !.pc = IF cached THEN "read" ELSE "peer"]
  <2>1. /\ i.path \in Paths /\ i.path.service \in Services
        /\ data # Nil /\ data.load_balancer
    BY <1>4, Zenon DEF Routed, Paths
  <2>2. data \in ServiceData(i.path.service) /\ data \in AllServiceData
    BY <2>1, Zenon DEF Inv, TypeOK, AllServiceData
  <2>3. cached \in BOOLEAN
    BY Zenon DEF Cached
  <2>4. req[r] \in Ctx /\ req[r].found = Nil
    BY Zenon DEF Inv, TypeOK, CtxOK, RequestFilter, At
  <2> HIDE DEF data, cached
  <2>5. c \in Ctx
    BY <2>2, <2>3, <2>4, ZenonT(30) DEF Ctx, Sent
  <2>6. CtxOK(c)
    <3>1. /\ c.input = i /\ c.service_data = data /\ c.do_cache = cached
          /\ c.pc = IF cached THEN "read" ELSE "peer"
          /\ c.found = Nil
      BY <2>4, Zenon DEF Ctx
    <3> HIDE DEF c
    <3>2. Grounded(c)
      BY <3>1, <2>1, <2>2, Zenon DEF Grounded, Sent, cached
    <3> QED
      BY <3>1, <3>2, <2>3, Zenon DEF CtxOK
  <2>7. req' = [req EXCEPT ![r] = c]
    BY <1>1, <1>4, ZenonT(30) DEF data, cached
  <2> QED
    BY <2>5, <2>6, <2>7, <1>2, CtxStep, Zenon
<1> QED
  BY <1>3, <1>4, Zenon

(* Stripping headers does not change the path a request is cached under,   *)
(* and the key is made unless the request has no body.                     *)
LEMMA ReadBodyInv ==
  ASSUME Inv, NEW r \in Requests, ReadBody(r)
  PROVE  Inv'
<1> DEFINE i == req[r].input
           pc == IF i.body = NoBody THEN "panicked" ELSE "lookup"
           c == [req[r] EXCEPT !.input = Stripped(i), !.pc = pc]
<1>1. req[r] \in Ctx /\ CtxOK(req[r]) /\ req[r].pc = "read"
  BY Zenon DEF Inv, TypeOK, ReadBody, At
<1>2. i \in Inputs /\ Grounded(req[r]) /\ req[r].do_cache /\ req[r].found = Nil
  BY <1>1, Zenon DEF CtxOK
<1>3. /\ Stripped(i) \in Sent
      /\ Stripped(i).path = i.path /\ Stripped(i).body = i.body
  BY <1>2, StrippedPath, Zenon
<1>4. c \in Ctx
  BY <1>1, <1>3, Zenon DEF Ctx
<1>5. /\ c.input = Stripped(i) /\ c.service_data = req[r].service_data
      /\ c.do_cache = req[r].do_cache /\ c.pc = pc /\ c.found = Nil
  BY <1>1, <1>2, Zenon DEF Ctx
<1>6. req' = [req EXCEPT ![r] = c] /\ UNCHANGED env
  BY Zenon DEF ReadBody
<1> HIDE DEF c
<1>7. Grounded(c)
  BY <1>2, <1>3, <1>5, Zenon DEF Grounded
<1>8. CtxOK(c)
  BY <1>2, <1>3, <1>5, <1>7, Zenon DEF CtxOK
<1> QED
  BY <1>4, <1>6, <1>8, CtxStep, Zenon

(* What lookup finds under a key was stored for that path.                 *)
LEMMA LookupFindsInv ==
  ASSUME Inv, NEW r \in Requests, LookupFinds(r)
  PROVE  Inv'
<1> DEFINE k == req[r].input.path
<1>1. PICK b \in Replicas :
        /\ cache[b][k] # Nil
        /\ req' = [req EXCEPT ![r].found = cache[b][k], ![r].pc = "hit_filter"]
  BY Zenon DEF LookupFinds, CacheKey
<1> DEFINE e == cache[b][k]
           c == [req[r] EXCEPT !.found = e, !.pc = "hit_filter"]
<1>2. req[r] \in Ctx /\ CtxOK(req[r]) /\ req[r].pc = "lookup"
  BY Zenon DEF Inv, TypeOK, LookupFinds, At
<1>3. Grounded(req[r]) /\ req[r].do_cache /\ k \in Paths
  BY <1>2, Zenon DEF CtxOK, Grounded
<1>4. EntryOK(e, k)
  BY <1>1, <1>3, Zenon DEF Inv
<1> HIDE DEF e
<1>5. c \in Ctx
  BY <1>2, <1>4, Zenon DEF Ctx, EntryOK
<1>6. /\ c.input = req[r].input /\ c.service_data = req[r].service_data
      /\ c.do_cache = req[r].do_cache /\ c.pc = "hit_filter" /\ c.found = e
  BY <1>2, Zenon DEF Ctx
<1>7. req' = [req EXCEPT ![r] = c] /\ UNCHANGED env
  BY <1>1, ZenonT(30) DEF LookupFinds, e
<1> HIDE DEF c
<1>8. Grounded(c)
  BY <1>3, <1>6, Zenon DEF Grounded
<1>9. CtxOK(c)
  BY <1>3, <1>4, <1>6, <1>8, Zenon DEF CtxOK
<1> QED
  BY <1>5, <1>7, <1>9, CtxStep, Zenon

(* A miss goes on as a request without a cache would.                      *)
LEMMA LookupMissesInv ==
  ASSUME Inv, NEW r \in Requests, LookupMisses(r)
  PROVE  Inv'
<1> DEFINE c == [req[r] EXCEPT !.pc = "peer"]
<1>1. req[r] \in Ctx /\ CtxOK(req[r]) /\ req[r].pc = "lookup"
  BY Zenon DEF Inv, TypeOK, LookupMisses, At
<1>2. c \in Ctx
  BY <1>1, Zenon DEF Ctx
<1>3. /\ c.input = req[r].input /\ c.service_data = req[r].service_data
      /\ c.do_cache = req[r].do_cache /\ c.pc = "peer" /\ c.found = Nil
  BY <1>1, Zenon DEF Ctx, CtxOK
<1>4. req' = [req EXCEPT ![r] = c] /\ UNCHANGED env
  BY Zenon DEF LookupMisses
<1> HIDE DEF c
<1>5. CtxOK(c)
  BY <1>1, <1>3, Zenon DEF CtxOK, Grounded
<1> QED
  BY <1>2, <1>4, <1>5, CtxStep, Zenon

(* The heart of ServedWithinFreshness: an entry that the clock of one      *)
(* proxy allows for d more was answered at most d and the skew ago.        *)
LEMMA TrueAge ==
  ASSUME NEW t \in Nat, NEW skew \in 0..MaxSkew, NEW d \in Nat,
         NEW e, e.created \in Int, e.answered \in Int, Stamped(e),
         t + skew <= e.created + d
  PROVE  t - e.answered \in Int /\ t - e.answered <= d + MaxSkew
BY RequestAssumption DEF Stamped

(* Serving what was found, fresh or stale.                                 *)
LEMMA ServeInv ==
  ASSUME Inv, NEW r \in Requests, NEW pc \in {"hit", "stale"}, NEW d \in Nat,
         Grounded(req[r]), EntryOK(req[r].found, req[r].input.path),
         SystemTime(r) <= req[r].found.created + d,
         pc = "hit" => d = FreshFor, pc = "stale" => d = FreshFor + StaleFor,
         Serve(r, pc), UNCHANGED env
  PROVE  Inv'
<1> DEFINE e == req[r].found
           age == now - e.answered
           c == [req[r] EXCEPT !.age = age, !.pc = pc]
<1>1. req[r] \in Ctx
  BY Zenon DEF Inv, TypeOK
<1>2. now \in Nat /\ req[r].skew \in 0..MaxSkew
  BY <1>1, RequestAssumption DEF Inv, TypeOK, Ctx
<1>3. e.created \in Int /\ e.answered \in Int /\ Stamped(e)
  BY RequestAssumption DEF EntryOK, Entries
<1>4. now + req[r].skew <= e.created + d
  BY Zenon DEF SystemTime
<1>5. age \in Int /\ age <= d + MaxSkew
  BY <1>2, <1>3, <1>4, TrueAge, Zenon
<1>6. req' = [req EXCEPT ![r] = c]
  BY Zenon DEF Serve
<1> HIDE DEF age
<1>7. c \in Ctx
  BY <1>1, <1>5, Zenon DEF Ctx
<1>8. /\ c.input = req[r].input /\ c.service_data = req[r].service_data
      /\ c.do_cache = req[r].do_cache /\ c.pc = pc /\ c.found = e
      /\ c.age = age
  BY <1>1, Zenon DEF Ctx
<1> HIDE DEF c
<1>9. Grounded(c)
  BY <1>8, Zenon DEF Grounded
<1>10. c.found.to.path = c.input.path
  BY <1>8, Zenon DEF EntryOK
<1>11. CtxOK(c)
  BY <1>5, <1>8, <1>9, <1>10, Zenon DEF CtxOK
<1> QED
  BY <1>6, <1>7, <1>11, CtxStep, Zenon

(* cache_hit_filter cannot panic, and a hit is fresh.                      *)
LEMMA CacheHitFilterInv ==
  ASSUME Inv, NEW r \in Requests, CacheHitFilter(r)
  PROVE  Inv'
<1> DEFINE forced == [req[r] EXCEPT !.found = Nil, !.pc = "peer"]
           expired == [req[r] EXCEPT !.pc = "peer"]
<1>1. req[r] \in Ctx /\ CtxOK(req[r]) /\ req[r].pc = "hit_filter"
  BY Zenon DEF Inv, TypeOK, CacheHitFilter, At
<1>2. /\ Grounded(req[r]) /\ req[r].do_cache
      /\ EntryOK(req[r].found, req[r].input.path)
  BY <1>1, Zenon DEF CtxOK
<1>3. Ttl(r) # Nil
  BY <1>2, Zenon DEF Grounded, Cached, Ttl
<1>4. UNCHANGED env
  BY Zenon DEF CacheHitFilter
<1>5. CASE ForceExpired(r)
  <2>1. req' = [req EXCEPT ![r] = forced]
    BY <1>3, <1>5, Zenon DEF CacheHitFilter
  <2>2. forced \in Ctx
    BY <1>1, Zenon DEF Ctx
  <2>3. /\ forced.input = req[r].input
        /\ forced.service_data = req[r].service_data
        /\ forced.do_cache = req[r].do_cache /\ forced.pc = "peer"
        /\ forced.found = Nil
    BY <1>1, Zenon DEF Ctx
  <2> HIDE DEF forced
  <2>4. CtxOK(forced)
    BY <1>2, <2>3, Zenon DEF CtxOK, Grounded
  <2> QED
    BY <2>1, <2>2, <2>4, <1>4, CtxStep, Zenon
<1>6. CASE ~ForceExpired(r) /\ IsFresh(r)
  <2>1. Serve(r, "hit")
    BY <1>3, <1>6, Zenon DEF CacheHitFilter
  <2>2. FreshFor \in Nat /\ SystemTime(r) <= req[r].found.created + FreshFor
    BY <1>6, RequestAssumption, Zenon DEF IsFresh
  <2> QED
    BY <1>2, <1>4, <2>1, <2>2, ServeInv, Zenon
<1>7. CASE ~ForceExpired(r) /\ ~IsFresh(r)
  <2>1. req' = [req EXCEPT ![r] = expired]
    BY <1>3, <1>7, Zenon DEF CacheHitFilter
  <2>2. expired \in Ctx
    BY <1>1, Zenon DEF Ctx
  <2>3. /\ expired.input = req[r].input
        /\ expired.service_data = req[r].service_data
        /\ expired.do_cache = req[r].do_cache /\ expired.pc = "peer"
        /\ expired.found = req[r].found
    BY <1>1, Zenon DEF Ctx
  <2> HIDE DEF expired
  <2>4. CtxOK(expired)
    BY <1>2, <2>3, Zenon DEF CtxOK, Grounded
  <2> QED
    BY <2>1, <2>2, <2>4, <1>4, CtxStep, Zenon
<1> QED
  BY <1>5, <1>6, <1>7, Zenon

(* An expired entry that takes the place of an answer is within its window.*)
LEMMA UpstreamFailsStaleInv ==
  ASSUME Inv, NEW r \in Requests, UpstreamFailsStale(r)
  PROVE  Inv'
<1>1. CtxOK(req[r]) /\ req[r].pc = "header" /\ req[r].found # Nil
  BY Zenon DEF Inv, UpstreamFailsStale, CanServeStale, At
<1>2. Grounded(req[r]) /\ EntryOK(req[r].found, req[r].input.path)
  BY <1>1, Zenon DEF CtxOK
<1> DEFINE d == FreshFor + StaleFor
<1>3. d \in Nat
  BY RequestAssumption
<1>4. SystemTime(r) <= req[r].found.created + d
  <2>1. req[r].found.created \in Int
    BY <1>2, RequestAssumption DEF EntryOK, Entries
  <2>2. SystemTime(r) <= req[r].found.created + FreshFor + StaleFor
    BY Zenon DEF UpstreamFailsStale, CanServeStale
  <2> QED
    BY <2>1, <2>2, RequestAssumption
<1>5. Serve(r, "stale") /\ UNCHANGED env
  BY Zenon DEF UpstreamFailsStale
<1> QED
  BY <1>2, <1>3, <1>4, <1>5, ServeInv, Zenon

(* upstream_peer finds the load balancer that request_filter checked.      *)
LEMMA UpstreamPeerInv ==
  ASSUME Inv, NEW r \in Requests, UpstreamPeer(r)
  PROVE  Inv'
<1> DEFINE c == [req[r] EXCEPT !.pc = "header"]
<1>1. req[r] \in Ctx /\ CtxOK(req[r]) /\ req[r].pc = "peer"
  BY Zenon DEF Inv, TypeOK, UpstreamPeer, At
<1>2. /\ Grounded(req[r])
      /\ req[r].found = Nil \/ EntryOK(req[r].found, req[r].input.path)
  BY <1>1, Zenon DEF CtxOK
<1>3. req[r].service_data # Nil /\ req[r].service_data.load_balancer
  BY <1>2, Zenon DEF Grounded
<1>4. UNCHANGED env /\ (req' = [req EXCEPT ![r] = c] \/ Respond(r))
  BY <1>3, Zenon DEF UpstreamPeer, PeerData
<1>5. c \in Ctx
  BY <1>1, Zenon DEF Ctx
<1>6. /\ c.input = req[r].input /\ c.service_data = req[r].service_data
      /\ c.do_cache = req[r].do_cache /\ c.pc = "header"
      /\ c.found = req[r].found
  BY <1>1, Zenon DEF Ctx
<1> HIDE DEF c
<1>7. CtxOK(c)
  BY <1>2, <1>6, Zenon DEF CtxOK, Grounded
<1> QED
  BY <1>4, <1>5, <1>7, CtxStep, RespondInv, Zenon

(* The clock of a proxy while the upstream answers.                        *)
LEMMA AnswerStamped ==
  ASSUME Inv, NEW r \in Requests
  PROVE  /\ now \in 0..MaxTime
         /\ SystemTime(r) \in 0..(MaxTime + MaxSkew)
         /\ now <= SystemTime(r) /\ SystemTime(r) <= now + MaxSkew
<1>1. now \in 0..MaxTime /\ req[r].skew \in 0..MaxSkew
  BY Zenon DEF Inv, TypeOK, Ctx
<1> QED
  BY <1>1, RequestAssumption DEF SystemTime

(* A new meta has the time of the answer, and the buffer is empty.         *)
LEMMA ResponseHeaderInv ==
  ASSUME Inv, NEW r \in Requests, ResponseHeader(r)
  PROVE  Inv'
<1> DEFINE t == SystemTime(r)
           c == [req[r] EXCEPT !.created = t, !.answered = now, !.found = Nil,
                               !.value = 0, !.pc = "body"]
<1>1. req[r] \in Ctx /\ CtxOK(req[r]) /\ req[r].pc = "header"
  BY Zenon DEF Inv, TypeOK, ResponseHeader, At
<1>2. /\ now \in 0..MaxTime /\ t \in 0..(MaxTime + MaxSkew)
      /\ now <= t /\ t <= now + MaxSkew
  BY AnswerStamped, Zenon
<1>3. req' = [req EXCEPT ![r] = c] /\ UNCHANGED env
  BY Zenon DEF ResponseHeader
<1> HIDE DEF t
<1>4. c \in Ctx
  <2>1. 0 \in 0..Pieces
    BY RequestAssumption
  <2> QED
    BY <1>1, <1>2, <2>1, Zenon DEF Ctx
<1>5. /\ c.input = req[r].input /\ c.service_data = req[r].service_data
      /\ c.do_cache = req[r].do_cache /\ c.pc = "body"
      /\ c.created = t /\ c.answered = now
  BY <1>1, Zenon DEF Ctx
<1> HIDE DEF c
<1>6. Grounded(c) /\ Stamped(c)
  BY <1>1, <1>2, <1>5, Zenon DEF CtxOK, Grounded, Stamped
<1>7. CtxOK(c)
  BY <1>5, <1>6, Zenon DEF CtxOK
<1> QED
  BY <1>3, <1>4, <1>7, CtxStep, Zenon

(* A response that ends with its headers has a meta too.                   *)
LEMMA TrailersOnlyInv ==
  ASSUME Inv, NEW r \in Requests, TrailersOnly(r)
  PROVE  Inv'
<1>1. PICK status \in Trailers :
        IF req[r].do_cache
        THEN req' = [req EXCEPT ![r].created = SystemTime(r),
                                ![r].answered = now, ![r].found = Nil,
                                ![r].status = status, ![r].pc = "only"]
        ELSE Respond(r)
  BY Zenon DEF TrailersOnly
<1>2. UNCHANGED env
  BY Zenon DEF TrailersOnly
<1>3. CASE ~req[r].do_cache
  BY <1>1, <1>2, <1>3, RespondInv, Zenon
<1>4. CASE req[r].do_cache
  <2> DEFINE t == SystemTime(r)
             c == [req[r] EXCEPT !.created = t, !.answered = now, !.found = Nil,
                                 !.status = status, !.pc = "only"]
  <2>1. req[r] \in Ctx /\ CtxOK(req[r]) /\ req[r].pc = "header"
    BY Zenon DEF Inv, TypeOK, TrailersOnly, At
  <2>2. /\ now \in 0..MaxTime /\ t \in 0..(MaxTime + MaxSkew)
        /\ now <= t /\ t <= now + MaxSkew
    BY AnswerStamped, Zenon
  <2>3. req' = [req EXCEPT ![r] = c]
    BY <1>1, <1>4, Zenon
  <2> HIDE DEF t
  <2>4. c \in Ctx
    BY <2>1, <2>2, Zenon DEF Ctx
  <2>5. /\ c.input = req[r].input /\ c.service_data = req[r].service_data
        /\ c.do_cache = req[r].do_cache /\ c.pc = "only"
        /\ c.created = t /\ c.answered = now
    BY <2>1, Zenon DEF Ctx
  <2> HIDE DEF c
  <2>6. Grounded(c) /\ Stamped(c)
    BY <2>1, <2>2, <2>5, Zenon DEF CtxOK, Grounded, Stamped
  <2>7. CtxOK(c)
    BY <1>4, <2>5, <2>6, Zenon DEF CtxOK
  <2> QED
    BY <1>2, <2>3, <2>4, <2>7, CtxStep, Zenon
<1> QED
  BY <1>3, <1>4, Zenon

(* A piece of the body does not touch the meta.                            *)
LEMMA ResponseBodyInv ==
  ASSUME Inv, NEW r \in Requests, ResponseBody(r)
  PROVE  Inv'
<1> DEFINE v == req[r].value + 1
           c == [req[r] EXCEPT !.value = v]
<1>1. req[r] \in Ctx /\ CtxOK(req[r]) /\ req[r].pc = "body"
  BY Zenon DEF Inv, TypeOK, ResponseBody, At
<1>2. v \in 0..Pieces
  <2>1. req[r].value \in 0..Pieces /\ req[r].value < Pieces
    BY <1>1, Zenon DEF Ctx, ResponseBody
  <2> QED
    BY <2>1, RequestAssumption
<1>3. req' = [req EXCEPT ![r] = c] /\ UNCHANGED env
  BY Zenon DEF ResponseBody
<1> HIDE DEF v
<1>4. c \in Ctx
  BY <1>1, <1>2, Zenon DEF Ctx
<1>5. /\ c.input = req[r].input /\ c.service_data = req[r].service_data
      /\ c.do_cache = req[r].do_cache /\ c.pc = "body"
      /\ c.created = req[r].created /\ c.answered = req[r].answered
  BY <1>1, Zenon DEF Ctx
<1> HIDE DEF c
<1>6. Grounded(c) /\ Stamped(c)
  BY <1>1, <1>5, Zenon DEF CtxOK, Grounded, Stamped
<1>7. CtxOK(c)
  BY <1>5, <1>6, Zenon DEF CtxOK
<1> QED
  BY <1>3, <1>4, <1>7, CtxStep, Zenon

(* Only a whole body with the status 0 gets to finish.                     *)
LEMMA TrailerFilterInv ==
  ASSUME Inv, NEW r \in Requests, UpstreamResponseTrailerFilter(r)
  PROVE  Inv'
<1>1. PICK status \in Trailers :
        IF req[r].do_cache /\ IsOk(status)
        THEN req' = [req EXCEPT ![r].status = status, ![r].pc = "finish"]
        ELSE Respond(r)
  BY Zenon DEF UpstreamResponseTrailerFilter
<1>2. UNCHANGED env
  BY Zenon DEF UpstreamResponseTrailerFilter
<1>3. CASE ~(req[r].do_cache /\ IsOk(status))
  BY <1>1, <1>2, <1>3, RespondInv, Zenon
<1>4. CASE req[r].do_cache /\ IsOk(status)
  <2> DEFINE c == [req[r] EXCEPT !.status = status, !.pc = "finish"]
  <2>1. /\ req[r] \in Ctx /\ CtxOK(req[r]) /\ req[r].pc = "body"
        /\ req[r].value = Pieces
    BY Zenon DEF Inv, TypeOK, UpstreamResponseTrailerFilter, At
  <2>2. req' = [req EXCEPT ![r] = c]
    BY <1>1, <1>4, Zenon
  <2>3. c \in Ctx
    BY <2>1, ZenonT(30) DEF Ctx
  <2>4. /\ c.input = req[r].input /\ c.service_data = req[r].service_data
        /\ c.do_cache = req[r].do_cache /\ c.pc = "finish"
        /\ c.created = req[r].created /\ c.answered = req[r].answered
        /\ c.status = 0 /\ c.value = Pieces
    BY <1>4, <2>1, ZenonT(30) DEF Ctx, IsOk
  <2> HIDE DEF c
  <2>5. Grounded(c) /\ Stamped(c)
    BY <2>1, <2>4, Zenon DEF CtxOK, Grounded, Stamped
  <2>6. CtxOK(c)
    BY <1>4, <2>4, <2>5, Zenon DEF CtxOK
  <2> QED
    BY <1>2, <2>2, <2>3, <2>6, CtxStep, Zenon
<1> QED
  BY <1>3, <1>4, Zenon

(* finish stores under its own key what the upstream answered.             *)
LEMMA FinishInv ==
  ASSUME Inv, NEW r \in Requests, Finish(r)
  PROVE  Inv'
<1> DEFINE c == req[r]
           k == c.input.path
           e == Entry(r)
<1>1. c \in Ctx /\ CtxOK(c) /\ c.pc \in {"finish", "only"}
  BY Zenon DEF Inv, TypeOK, Finish, At
<1>2. PICK b \in Replicas : cache' = [cache EXCEPT ![b][k] = e]
  BY Zenon DEF Finish, CacheKey
<1>3. Grounded(c) /\ Stamped(c) /\ c.input \in Sent /\ k \in Paths
  BY <1>1, Zenon DEF CtxOK, Grounded
<1>4. /\ e.created = c.created /\ e.answered = c.answered
      /\ e.status = c.status /\ e.value = c.value
      /\ e.only = (c.pc = "only") /\ e.to = KeyHash(c.input)
  BY Zenon DEF Entry, At
<1>5. e \in Entries
  <2>1. KeyHash(c.input) \in {KeyHash(i) : i \in Sent}
    BY <1>3, Zenon
  <2> QED
    BY <1>1, <2>1, Zenon DEF Entry, Entries, Ctx, At
<1>6. EntryOK(e, k)
  <2>1. e.to.path = k
    BY <1>4 DEF KeyHash
  <2>2. ~e.only => e.status = 0 /\ e.value = Pieces
    BY <1>1, <1>4, Zenon DEF CtxOK
  <2> QED
    BY <1>3, <1>4, <1>5, <2>1, <2>2, Zenon DEF EntryOK, Stamped
<1> HIDE DEF e
<1>7. cache' \in [Replicas -> [Paths -> Entries \cup {Nil}]]
  BY <1>2, <1>3, <1>5, Zenon DEF Inv, TypeOK
<1>8. ASSUME NEW b2 \in Replicas, NEW k2 \in Paths, cache'[b2][k2] # Nil
      PROVE  EntryOK(cache'[b2][k2], k2)
  <2>1. CASE b2 = b /\ k2 = k
    BY <1>2, <1>3, <1>6, <2>1, Zenon DEF Inv, TypeOK
  <2>2. CASE ~(b2 = b /\ k2 = k)
    <3>1. cache'[b2][k2] = cache[b2][k2]
      BY <1>2, <1>3, <2>2, Zenon DEF Inv, TypeOK
    <3> QED
      BY <1>8, <3>1, Zenon DEF Inv
  <2> QED
    BY <2>1, <2>2, Zenon
<1>9. /\ req' \in [Requests -> Ctx]
      /\ \A q \in Requests : CtxOK(req'[q])
  BY RestingCtx, Zenon DEF Finish, Respond, Inv, TypeOK
<1> QED
  BY <1>7, <1>8, <1>9, Zenon DEF Finish, Inv, TypeOK

(* A reload touches the map and no RequestCtx.                             *)
LEMMA ReloadInv ==
  ASSUME Inv, Reload
  PROVE  Inv'
<1>0. PICK s \in Services : \E data \in ServiceData(s) :
        services' = [services EXCEPT ![s] = data]
  BY Zenon DEF Reload
<1>1. PICK data \in ServiceData(s) : services' = [services EXCEPT ![s] = data]
  BY <1>0, Zenon
<1>2. data \in AllServiceData
  BY Zenon DEF AllServiceData
<1>3. /\ services' \in [Services -> AllServiceData \cup {Nil}]
      /\ \A x \in Services : services'[x] \in ServiceData(x) \cup {Nil}
  BY <1>1, <1>2, Zenon DEF Inv, TypeOK
<1>4. reloads' \in 0..MaxReloads
  BY RequestAssumption DEF Reload, Inv, TypeOK
<1> QED
  BY <1>3, <1>4, Zenon DEF Reload, Inv, TypeOK

(* The passing of time touches no meta and no entry.                       *)
LEMMA TickInv ==
  ASSUME Inv, Tick
  PROVE  Inv'
<1>1. now' \in 0..MaxTime
  BY RequestAssumption DEF Tick, Inv, TypeOK
<1> QED
  BY <1>1, Zenon DEF Tick, Inv, TypeOK

(* Every step preserves the invariant.                                     *)
LEMMA NextInv == Inv /\ [Next]_vars => Inv'
<1> SUFFICES ASSUME Inv, [Next]_vars PROVE Inv'
  BY Zenon
<1>1. CASE UNCHANGED vars
  BY <1>1, Zenon DEF vars, env, Inv, TypeOK
<1>2. CASE Reload
  BY <1>2, ReloadInv, Zenon
<1>3. CASE Tick
  BY <1>3, TickInv, Zenon
<1>4. ASSUME NEW r \in Requests,
             \/ ReadBodyFails(r) \/ ServeHit(r) \/ UpstreamFails(r)
             \/ UpstreamResponseBodyFilter(r) \/ FinishFails(r) \/ Abandoned(r)
      PROVE  Inv'
  BY <1>4, RespondInv, Zenon DEF ReadBodyFails, ServeHit, UpstreamFails,
       UpstreamResponseBodyFilter, FinishFails, Abandoned
<1>5. ASSUME NEW r \in Requests,
             \/ RequestFilter(r) \/ ReadBody(r)
             \/ LookupFinds(r) \/ LookupMisses(r)
             \/ CacheHitFilter(r) \/ UpstreamPeer(r)
             \/ UpstreamFailsStale(r)
             \/ ResponseHeader(r) \/ TrailersOnly(r) \/ ResponseBody(r)
             \/ UpstreamResponseTrailerFilter(r) \/ Finish(r)
      PROVE  Inv'
  BY <1>5, RequestFilterInv, ReadBodyInv, LookupFindsInv, LookupMissesInv,
     CacheHitFilterInv, UpstreamPeerInv, UpstreamFailsStaleInv,
     ResponseHeaderInv, TrailersOnlyInv, ResponseBodyInv, TrailerFilterInv, FinishInv, Zenon
<1> QED
  BY <1>1, <1>2, <1>3, <1>4, <1>5, Zenon DEF Next

(* The strengthening is invariant: what every callback relies on.          *)
THEOREM Invariance == Spec => []Inv
BY InitInv, NextInv, PTL DEF Spec

(* Requests, cache and services keep their types: no callback works with a *)
(* value of another kind than the one it expects.                          *)
THEOREM TypeCorrect == Spec => []TypeOK
<1>1. Inv => TypeOK
  BY Zenon DEF Inv
<1> QED
  BY <1>1, Invariance, PTL

(* However services are reloaded or unloaded while requests are on their   *)
(* way, no unwrap of a callback panics, unless the request has no body.    *)
THEOREM UnwrapsAlwaysHold == Spec => []UnwrapsHold
<1>1. Inv => UnwrapsHold
  BY Zenon DEF Inv, CtxOK, UnwrapsHold, At
<1> QED
  BY <1>1, Invariance, PTL

(* For any clocks no further apart than MaxSkew and any freshness and      *)
(* stale_if_error, what is served from the cache is for the method that    *)
(* was asked for and no older than these allow.                            *)
THEOREM AlwaysServedWithinFreshness == Spec => []ServedWithinFreshness
<1>1. Inv => ServedWithinFreshness
  BY Zenon DEF Inv, CtxOK, ServedWithinFreshness, At
<1> QED
  BY <1>1, Invariance, PTL

(* A response with a body is in the cache only whole and with status 0.    *)
THEOREM AlwaysStoredAfterTrailers == Spec => []StoredAfterTrailers
<1>1. Inv => StoredAfterTrailers
  BY Zenon DEF Inv, EntryOK, StoredAfterTrailers
<1> QED
  BY <1>1, Invariance, PTL

=============================================================================
