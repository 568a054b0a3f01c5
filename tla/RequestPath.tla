---------------------------- MODULE RequestPath ----------------------------
(***************************************************************************)
(* The life of a gRPC request in the proxy: the callbacks of GrpcProxy     *)
(* (grcache-proxy/src/proxy/mod.rs) in the order pingora calls them, with  *)
(* the gRPC helpers they use and with lookup and finish of the Redis cache *)
(* (cache/redis_replicas.rs).                                              *)
(*                                                                         *)
(* Requests run side by side with each other, with reloads of services and *)
(* with the clock, on proxies that share the Redis replicas and whose      *)
(* clocks differ.  Bytes are abstracted: a body is a value, a header is    *)
(* its name, a response is a number of pieces and a gRPC status.           *)
(***************************************************************************)
EXTENDS ServiceSpec

CONSTANTS
  Services,     \* gRPC services: package and name
  Methods,      \* method names
  Inputs,       \* what clients can send: path, body, headers, vary
  NoBody,       \* the body of a request that has none
  Core,         \* CORE_HEADERS
  Sources,      \* descriptor set sources of the objects
  Replicas,     \* Redis replicas
  MaxSkew,      \* how far the clocks of two proxies are apart at most
  FreshFor,     \* the freshness of a new CacheMeta
  StaleFor,     \* its stale_if_error: how long it may serve for a failure
  Pieces,       \* pieces of a response body
  Trailers,     \* values of grpc-status in trailers; Absent if it is not there
  Requests,     \* bound: requests made
  MaxReloads,   \* bound: changes of the services map
  MaxTime       \* bound: the clock

VARIABLES
  services,     \* service -> ServiceData, or Nil
  cache,        \* replica -> key -> the value stored there, or Nil
  req,          \* request -> its session and RequestCtx
  reloads,      \* changes of the services map so far
  now           \* the clock

env == <<services, cache, reloads, now>>
vars == <<env, req>>

Absent == -1

ASSUME RequestAssumption ==
  /\ MaxSkew \in Nat /\ FreshFor \in Nat /\ StaleFor \in Nat
  /\ Pieces \in Nat
  /\ MaxReloads \in Nat /\ MaxTime \in Nat
  /\ Trailers \subseteq Nat \cup {Absent}

ASSUME InputAssumption ==
  \A i \in Inputs : i = [path |-> i.path, body |-> i.body,
                         headers |-> i.headers, vary |-> i.vary]

(* What a well-formed gRPC path names, and the keys of the cache.          *)
Paths == [service : Services, method : Methods]

(* ServiceData as the store publishes it: an unloaded service has neither  *)
(* spec nor load balancer, any other has both.                             *)
Tombstone == [load_balancer |-> FALSE, spec |-> Nil]

Specs(service) ==
  {BuildPassthrough} \cup ({Build(src, service) : src \in Sources} \ {Nil})

ServiceData(service) ==
  {Tombstone} \cup {[load_balancer |-> TRUE, spec |-> sp] : sp \in Specs(service)}

AllServiceData == UNION {ServiceData(s) : s \in Services}

(* GrpcMeta::method_spec, and the cache_spec of what it finds.             *)
MethodSpec(data, method) ==
  IF data.spec # Nil /\ method \in DOMAIN data.spec.methods
  THEN data.spec.methods[method]
  ELSE Nil

NewCtx ==
  [pc |-> "idle", input |-> Nil, service_data |-> Nil, do_cache |-> FALSE,
   skew |-> 0, created |-> 0, answered |-> 0, value |-> 0, status |-> Absent,
   found |-> Nil, age |-> 0]

Init ==
  /\ services \in [Services -> AllServiceData \cup {Nil}]
  /\ \A s \in Services : services[s] \in ServiceData(s) \cup {Nil}
  /\ cache = [b \in Replicas |-> [k \in Paths |-> Nil]]
  /\ req = [r \in Requests |-> NewCtx]
  /\ reloads = 0
  /\ now = 0

-----------------------------------------------------------------------------
(* Helpers of the grpc module.                                             *)

(* make_vary_headers_set: the names listed in the values of vary headers.  *)
(* A value that is not text contributes nothing: flat_map drops the error. *)
VarySet(input) == UNION {v.names : v \in {w \in input.vary : w.text}}

(* The headers that find_strip_headers leaves in a request.                *)
KeptHeaders(input) == input.headers \cap (Core \cup VarySet(input))

Stripped(input) == [input EXCEPT !.headers = KeptHeaders(input)]

(* Mutant: any status that is there will do.                               *)
MutIsOk(status) == status # Absent

(* GrpcStatus::parse succeeds and is_ok: a u8 that is zero.                *)
IsOk(status) == status \in 0..255 /\ status = 0

(* What hash_vary and hash_body put into the hash.                         *)
KeyHash(input) ==
  [path |-> input.path, body |-> input.body, vary |-> VarySet(input),
   values |-> KeptHeaders(input) \cap VarySet(input)]

(* CacheKey::default(req_header), which the callback returns: a function   *)
(* of the request line.  The hash is computed and left unused.             *)
CacheKey(input) == input.path

-----------------------------------------------------------------------------
(* request_filter.                                                         *)

At(r, pc) == req[r].pc = pc

(* The response, or an error, is sent and the session and its RequestCtx   *)
(* are dropped.                                                            *)
Respond(r) == req' = [req EXCEPT ![r] = [NewCtx EXCEPT !.pc = "done"]]

(* Otherwise the answer is 400 for a path that does not parse, or 404 for  *)
(* a service that is unknown or has no load balancer.                      *)
Routed(path) ==
  /\ path \in Paths
  /\ services[path.service] # Nil
  /\ services[path.service].load_balancer

Cached(data, method) ==
  MethodSpec(data, method) # Nil /\ MethodSpec(data, method) > 0

(* The proxy the request has reached is skew ahead of the slowest one.     *)
RequestFilter(r) ==
  /\ At(r, "idle")
  /\ \E i \in Inputs, skew \in 0..MaxSkew :
       IF Routed(i.path)
       THEN LET data == services[i.path.service]
                cached == Cached(data, i.path.method)
            IN  req' = [req EXCEPT ![r].input = i,
                                   ![r].service_data = data,
                                   ![r].do_cache = cached,
                                   ![r].skew = skew,
                                   ![r].pc = IF cached THEN "read" ELSE "peer"]
       ELSE Respond(r)
  /\ UNCHANGED env

(* The body of a request that may be cached is read to its end and headers *)
(* outside of the key are stripped (the propagation set is empty).  Then   *)
(* request_cache_filter enables the cache, and cache_key_callback unwraps  *)
(* the retry buffer, which is None when no byte of a body was read.        *)
ReadBody(r) ==
  /\ At(r, "read")
  /\ req' = [req EXCEPT ![r].input = Stripped(req[r].input),
                        ![r].pc = IF req[r].input.body = NoBody
                                  THEN "panicked" ELSE "lookup"]
  /\ UNCHANGED env

(* The client went away, or 413 for a body above the buffer size.          *)
ReadBodyFails(r) ==
  /\ At(r, "read")
  /\ Respond(r)
  /\ UNCHANGED env

-----------------------------------------------------------------------------
(* The cache, once the key is made.                                        *)

(* lookup finds a value on the replica it selected.                        *)
LookupFinds(r) ==
  /\ At(r, "lookup")
  /\ \E b \in Replicas :
       /\ cache[b][CacheKey(req[r].input)] # Nil
       /\ req' = [req EXCEPT ![r].found = cache[b][CacheKey(req[r].input)],
                             ![r].pc = "hit_filter"]
  /\ UNCHANGED env

(* No pool, no connection, an error of Redis, no value, or another version *)
(* tag: Ok(None).  A meta that does not decode is an Err, after which      *)
(* pingora goes on as after a miss.  (The version tag of an empty value    *)
(* cannot be read, but finish never stores one.)                           *)
LookupMisses(r) ==
  /\ At(r, "lookup")
  /\ req' = [req EXCEPT ![r].pc = "peer"]
  /\ UNCHANGED env

(* SystemTime::now() of the proxy.                                         *)
SystemTime(r) == now + req[r].skew

(* CacheMeta::age (external): zero for a meta from the future.             *)
Age(r) ==
  IF SystemTime(r) < req[r].found.created
  THEN 0
  ELSE SystemTime(r) - req[r].found.created

(* The cache_spec that cache_hit_filter unwraps.                           *)
Ttl(r) == MethodSpec(req[r].service_data, req[r].input.path.method)

(* What cache_hit_filter returns, which pingora takes as the order to      *)
(* expire the entry: true for an entry that is younger than the TTL.       *)
ForceExpired(r) == Age(r) < Ttl(r)

(* CacheMeta::is_fresh (external).                                         *)
IsFresh(r) == SystemTime(r) <= req[r].found.created + FreshFor

(* HttpCache::can_serve_stale_error (external).                            *)
CanServeStale(r) ==
  /\ req[r].found # Nil
  /\ SystemTime(r) <= req[r].found.created + FreshFor + StaleFor

(* The answer that was found is served.  age is history: how long ago the  *)
(* upstream gave it.                                                       *)
Serve(r, pc) ==
  req' = [req EXCEPT ![r].age = now - req[r].found.answered, ![r].pc = pc]

(* A fresh entry is served, an expired one is fetched again and kept for   *)
(* the case that the upstream fails; a force-expired one is not kept.      *)
CacheHitFilter(r) ==
  /\ At(r, "hit_filter")
  /\ IF Ttl(r) = Nil
     THEN req' = [req EXCEPT ![r].pc = "panicked"]
     ELSE IF ForceExpired(r)
     THEN req' = [req EXCEPT ![r].found = Nil, ![r].pc = "peer"]
     ELSE IF IsFresh(r)
     THEN Serve(r, "hit")
     ELSE req' = [req EXCEPT ![r].pc = "peer"]
  /\ UNCHANGED env

(* read_body hands out the whole stored body every time it is called, so a *)
(* hit lasts until the client leaves.                                      *)
ServeHit(r) ==
  /\ At(r, "hit") \/ At(r, "stale")
  /\ Respond(r)
  /\ UNCHANGED env

-----------------------------------------------------------------------------
(* Upstream.                                                               *)

(* Mutant: the service is looked up again in the shared map.               *)
MutPeerData(r) == services[req[r].input.path.service]

(* The ServiceData that upstream_peer unwraps.                             *)
PeerData(r) == req[r].service_data

(* A backend is selected, or there is none (502).                          *)
UpstreamPeer(r) ==
  /\ At(r, "peer")
  /\ IF PeerData(r) = Nil \/ ~PeerData(r).load_balancer
     THEN req' = [req EXCEPT ![r].pc = "panicked"]
     ELSE req' = [req EXCEPT ![r].pc = "header"] \/ Respond(r)
  /\ UNCHANGED env

(* Mutant: the two times of the meta are swapped.                          *)
MutResponseHeader(r) ==
  /\ At(r, "header")
  /\ req' = [req EXCEPT ![r].created = SystemTime(r) + FreshFor,
                        ![r].answered = now, ![r].found = Nil,
                        ![r].value = 0, ![r].pc = "body"]
  /\ UNCHANGED env

(* Response headers that are followed by a body: response_cache_filter     *)
(* makes the meta and get_miss_handler an empty buffer.  An expired entry  *)
(* is of no use from here on.                                              *)
ResponseHeader(r) ==
  /\ At(r, "header")
  /\ req' = [req EXCEPT ![r].created = SystemTime(r), ![r].answered = now,
                        ![r].found = Nil, ![r].value = 0, ![r].pc = "body"]
  /\ UNCHANGED env

(* Response headers that end the stream, with the status among them: the   *)
(* trailer filter and the body filter are not called.                      *)
TrailersOnly(r) ==
  /\ At(r, "header")
  /\ \E status \in Trailers :
       IF req[r].do_cache
       THEN req' = [req EXCEPT ![r].created = SystemTime(r),
                               ![r].answered = now, ![r].found = Nil,
                               ![r].status = status, ![r].pc = "only"]
       ELSE Respond(r)
  /\ UNCHANGED env

(* write_body.                                                             *)
ResponseBody(r) ==
  /\ At(r, "body")
  /\ req[r].value < Pieces
  /\ req' = [req EXCEPT ![r].value = @ + 1]
  /\ UNCHANGED env

(* The stream ends in the body: the response is passed on, not cached.     *)
UpstreamResponseBodyFilter(r) ==
  /\ At(r, "body")
  /\ Respond(r)
  /\ UNCHANGED env

(* Trailers arrive after the whole body; only the status 0 is cached.      *)
UpstreamResponseTrailerFilter(r) ==
  /\ At(r, "body")
  /\ req[r].value = Pieces
  /\ \E status \in Trailers :
       IF req[r].do_cache /\ IsOk(status)
       THEN req' = [req EXCEPT ![r].status = status, ![r].pc = "finish"]
       ELSE Respond(r)
  /\ UNCHANGED env

(* The connection to upstream fails: the miss handler is dropped.          *)
UpstreamFails(r) ==
  /\ At(r, "header") \/ At(r, "body")
  /\ ~CanServeStale(r)
  /\ Respond(r)
  /\ UNCHANGED env

(* It fails before a header came, and an expired entry that was kept takes *)
(* the place of the answer (should_serve_stale, not overridden).           *)
UpstreamFailsStale(r) ==
  /\ At(r, "header")
  /\ CanServeStale(r)
  /\ Serve(r, "stale")
  /\ UNCHANGED env

(* Mutant: the meta is made when the value is stored.                      *)
MutEntry(r) ==
  [created |-> SystemTime(r), answered |-> req[r].answered, status |-> req[r].status,
   value |-> req[r].value, only |-> At(r, "only"), to |-> KeyHash(req[r].input)]

(* CacheData: meta and body.  answered, status, only and to are history:   *)
(* when the upstream answered, how, and to what request.                   *)
Entry(r) ==
  [created |-> req[r].created, answered |-> req[r].answered,
   status |-> req[r].status, value |-> req[r].value, only |-> At(r, "only"),
   to |-> KeyHash(req[r].input)]

(* MissHandler::finish sets the value on the replica that is selected now. *)
Finish(r) ==
  /\ At(r, "finish") \/ At(r, "only")
  /\ \E b \in Replicas :
       cache' = [cache EXCEPT ![b][CacheKey(req[r].input)] = Entry(r)]
  /\ Respond(r)
  /\ UNCHANGED <<services, reloads, now>>

(* No pool, no connection, or an error of set.                             *)
FinishFails(r) ==
  /\ At(r, "finish") \/ At(r, "only")
  /\ Respond(r)
  /\ UNCHANGED env

(* The client goes away or the proxy dies in the middle of a request: the  *)
(* RequestCtx is gone, what is in Redis stays.                             *)
Abandoned(r) ==
  /\ ~At(r, "idle") /\ ~At(r, "done") /\ ~At(r, "panicked")
  /\ Respond(r)
  /\ UNCHANGED env

-----------------------------------------------------------------------------
(* The services map as the service store changes it, and time.             *)

Reload ==
  /\ reloads < MaxReloads
  /\ \E s \in Services : \E data \in ServiceData(s) :
       services' = [services EXCEPT ![s] = data]
  /\ reloads' = reloads + 1
  /\ UNCHANGED <<cache, req, now>>

Tick ==
  /\ now < MaxTime
  /\ now' = now + 1
  /\ UNCHANGED <<services, cache, req, reloads>>

Next ==
  \/ \E r \in Requests :
       \/ RequestFilter(r)
       \/ ReadBody(r) \/ ReadBodyFails(r)
       \/ LookupFinds(r) \/ LookupMisses(r)
       \/ CacheHitFilter(r) \/ ServeHit(r)
       \/ UpstreamPeer(r) \/ UpstreamFails(r) \/ UpstreamFailsStale(r)
       \/ ResponseHeader(r) \/ TrailersOnly(r) \/ ResponseBody(r)
       \/ UpstreamResponseBodyFilter(r) \/ UpstreamResponseTrailerFilter(r)
       \/ Finish(r) \/ FinishFails(r)
       \/ Abandoned(r)
  \/ Reload
  \/ Tick

Spec == Init /\ [][Next]_vars

-----------------------------------------------------------------------------
(* Properties.                                                             *)

Sent == Inputs \cup {Stripped(i) : i \in Inputs}

Entries ==
  [created : 0..(MaxTime + MaxSkew), answered : 0..MaxTime,
   status : Trailers \cup {Absent}, value : 0..Pieces, only : BOOLEAN,
   to : {KeyHash(i) : i \in Sent}]

Ctx ==
  [pc : {"idle", "read", "lookup", "hit_filter", "hit", "stale", "peer",
         "header", "body", "only", "finish", "done", "panicked"},
   input : Sent \cup {Nil}, service_data : AllServiceData \cup {Nil},
   do_cache : BOOLEAN, skew : 0..MaxSkew, created : 0..(MaxTime + MaxSkew),
   answered : 0..MaxTime, value : 0..Pieces, status : Trailers \cup {Absent},
   found : Entries \cup {Nil}, age : Int]

(* The variables have their types.                                         *)
TypeOK ==
  /\ services \in [Services -> AllServiceData \cup {Nil}]
  /\ \A s \in Services : services[s] \in ServiceData(s) \cup {Nil}
  /\ cache \in [Replicas -> [Paths -> Entries \cup {Nil}]]
  /\ req \in [Requests -> Ctx]
  /\ reloads \in 0..MaxReloads
  /\ now \in 0..MaxTime

(* The unwraps of the callbacks hold although the service can be reloaded, *)
(* lose its load balancer or its method, or be unloaded after              *)
(* request_filter checked it: only a request for a cached method that has  *)
(* no body at all, which no gRPC client sends, ends in a panic.            *)
UnwrapsHold ==
  \A r \in Requests : At(r, "panicked") => req[r].input.body = NoBody

(* What is served from the cache is for the method that was asked for and  *)
(* is no older than the meta allows, give or take what the clocks of two   *)
(* proxies differ: not older than the freshness, or the freshness and      *)
(* stale_if_error when the upstream has failed the request.  It does not   *)
(* matter which replica holds it, how long the fill took, what TTL it was  *)
(* filled under, or how long the failing upstream was waited for.          *)
ServedWithinFreshness ==
  \A r \in Requests :
    /\ At(r, "hit") \/ At(r, "stale") =>
         req[r].found.to.path = req[r].input.path
    /\ At(r, "hit") => req[r].age <= FreshFor + MaxSkew
    /\ At(r, "stale") => req[r].age <= FreshFor + StaleFor + MaxSkew

(* "The TTL is simply a guaranteed upper bound on cache duration"          *)
(* (options.proto): what is served from the cache was given by the         *)
(* upstream no longer than the method's cache_ttl ago, give or take the    *)
(* clocks.                                                                 *)
ServedWithinTtl ==
  \A r \in Requests :
    At(r, "hit") \/ At(r, "stale") => req[r].age <= Ttl(r) + MaxSkew

(* A response with a body reaches the cache only as a whole and after its  *)
(* trailers reported success, although it was declared cacheable before.   *)
StoredAfterTrailers ==
  \A b \in Replicas, k \in Paths :
    (cache[b][k] # Nil /\ ~cache[b][k].only) =>
      cache[b][k].status = 0 /\ cache[b][k].value = Pieces

(* "for now we only cache non error responses" (upstream_response_trailer_ *)
(* filter).  A response without a body is not looked at.                   *)
OnlyOkStored ==
  \A b \in Replicas, k \in Paths :
    cache[b][k] # Nil => cache[b][k].status = 0

(* The key covers the body and the headers specified as vary, which "are   *)
(* taken into account in the cache key" (find_strip_headers): a hit serves *)
(* an answer to a request equal in all of them.                            *)
HitAnswersTheRequest ==
  \A r \in Requests :
    At(r, "hit") \/ At(r, "stale") => req[r].found.to = KeyHash(req[r].input)

=============================================================================
