---------------------------- MODULE StarshipService ----------------------------
(***************************************************************************)
(* The example service, star-wars-starships, as a composition: the three   *)
(* requests of its API, each with the hooks that main, the handler and the *)
(* client give it, its core, and its two caches, which outlive the         *)
(* requests.  Requests come one after the other.  There is one ship, which *)
(* the external service lists on its last page, and which it may not know. *)
(*                                                                         *)
(* "other" stands for any other service: one request with any hooks, as    *)
(* module RequestPipeline composes them.                                   *)
(***************************************************************************)
EXTENDS RequestPipeline

CONSTANTS MaxPages,    \* pages of the listing of the external service
          CalleeCodes  \* HTTP codes the external service answers with

Requests == {"listStarShips", "getStarShip", "updateStatus"}
Nothing == "nothing"
InvalidElement == [code |-> "unknown", value |-> Nothing]

\* The tokens of main, and the scope each grants
Granted == [none |-> {}, unknown |-> {}, readOnly |-> {"read"}, readWrite |-> {"read", "write"}]
Valid == {"readOnly", "readWrite"}
Required(r) == IF r = "updateStatus" THEN "write" ELSE "read"

ASSUME ServiceAssumption == MaxPages \in Nat \ {0} /\ CalleeCodes \subseteq 100 .. 999

VARIABLES request,  \* the request, of this service or another
          token,    \* the token in its metadata
          scope,    \* the claim in the context, empty if there is none
          fetched,  \* starships of ListStarShipProperties, by page
          page,     \* pages fetched in this attempt
          found,    \* starshipProperties of GetStarShipProperties, or nothing
          data,     \* what the response holds
          cache     \* cache[l]: the element of the caching hook of l

serviceVars == <<request, token, scope, fetched, page, found, data, cache>>
allVars == <<vars, serviceVars>>

TypeOKService ==
  /\ TypeOK
  /\ request \in Requests \cup {"other"} /\ token \in DOMAIN Granted
  /\ scope \subseteq {"read", "write"}
  /\ fetched \in Seq(1 .. MaxPages) /\ page \in 0 .. MaxPages
  /\ found \in {Nothing, "ship"}
  /\ data \in {Nothing, "listing", "part", "ship", "update"}
  /\ cache \in [Levels -> [code : Codes, value : {Nothing, "listing", "part", "ship"}]]

-----------------------------------------------------------------------------
\* Mutants: the hooks are composed in a slightly different way.
ForwardingAddedLast(r) == IF r = "listStarShips" THEN <<"logging", "breaker", "forwarding", "retry">>
                          ELSE <<"forwarding_except_not_found", "logging", "breaker", "caching", "retry">>
NotFoundForwarded(r) == <<"forwarding", "logging", "breaker", "caching", "retry">>
CachingFirst(r) == (IF r = "listStarShips" THEN <<"caching">> ELSE << >>)
                     \o <<"logging", "token", "exceptions", "claim">>

HandlerHooks(r) == IF r = "listStarShips" THEN <<"logging", "token", "exceptions", "claim", "caching">>
                   ELSE <<"logging", "token", "exceptions", "claim">>
IssuerHooks(r) == IF r = "listStarShips" THEN <<"forwarding", "logging", "breaker", "retry">>
                  ELSE <<"forwarding_except_not_found", "logging", "breaker", "caching", "retry">>
HooksOf(r) == IF r = "other" THEN Globals
              ELSE [handler |-> HandlerHooks(r), issuer |-> IssuerHooks(r)]

\* Status codes the caching hooks insert
CodesToCache == [handler |-> {"ok"}, issuer |-> {"ok", "not_found"}]

\* External: the answer of the HTTP server of the ships.  No answer is an
\* unknown status, and one that cannot be parsed an exception.
SpecificCodes == [c \in {401, 403, 404, 409, 429, 501, 503, 504} |->
                    CASE c = 401 -> "unauthenticated"    [] c = 403 -> "permission_denied"
                      [] c = 404 -> "not_found"          [] c = 409 -> "already_exists"
                      [] c = 429 -> "resource_exhausted" [] c = 501 -> "unimplemented"
                      [] c = 503 -> "unavailable"        [] c = 504 -> "deadline_exceeded"]
GenericCodes == <<"ok", "ok", "ok", "invalid_argument", "internal">>
FromHttpStatusCode(c) == IF c \in DOMAIN SpecificCodes THEN Status(SpecificCodes[c])
                         ELSE IF c \div 100 \in DOMAIN GenericCodes THEN Status(GenericCodes[c \div 100])
                         ELSE Thrown("out_of_range")
CalleeErrors == ({FromHttpStatusCode(c) : c \in CalleeCodes} \ {Status("ok")})
                  \cup {Status("unknown"), Thrown("other")}

-----------------------------------------------------------------------------
InitService ==
  /\ \/ /\ request \in Requests /\ token \in DOMAIN Granted
        /\ scope \in {{}, {"read", "write"}}   \* that the metadata bring
     \/ request = "other" /\ token = "none" /\ scope = {}
  /\ Begins(HooksOf(request))
  /\ fetched = << >> /\ page = 0 /\ found = Nothing /\ data = Nothing
  /\ cache = [l \in Levels |-> InvalidElement]

OtherRequest == request = "other" /\ Next /\ UNCHANGED serviceVars

Reached(kind) == stage = "down" /\ ~Innermost(level) /\ Hook = kind
FunctionOf(l) == stage = "down" /\ level = l /\ Innermost(l)

\* TokenAuthRequestHook::pre_process: the claim always comes from the token;
\* without a valid one it is left empty.
Authenticate == /\ Reached("token")
                /\ IF token \in Valid THEN PreProcess ELSE Refuse
                /\ scope' = Granted[token]
                /\ UNCHANGED <<request, token, fetched, page, found, data, cache>>

\* ClaimCheckerRequestHook::pre_process
Authorize == /\ Reached("claim")
             /\ IF Required(request) \in scope THEN PreProcess ELSE Refuse
             /\ UNCHANGED serviceVars

\* Requests of other threads may open the circuit breaker.
Enter == /\ \/ Process
            \/ (\E kind \in Kinds \ {"token", "claim", "caching"} : Reached(kind)) /\ PreProcess
            \/ Reached("breaker") /\ Refuse
         /\ UNCHANGED serviceVars

\* CachingRequestHook::Process finds an element, which never expires, ...
UseCache ==
  /\ Reached("caching") /\ cache[level] # InvalidElement
  /\ CacheHit(cache[level].code)
  /\ IF level = "handler" THEN data' = cache[level].value /\ UNCHANGED found
                           ELSE found' = cache[level].value /\ UNCHANGED data
  /\ UNCHANGED <<request, token, scope, fetched, page, cache>>

MissCache == Reached("caching") /\ cache[level] = InvalidElement /\ PreProcess /\ UNCHANGED serviceVars

\* ... or inserts what the status codes allow.
FillCache ==
  /\ CacheMissed
  /\ cache' = IF Code \in CodesToCache[level]
              THEN [cache EXCEPT ![level] =
                      [code |-> Code, value |-> IF level = "handler" THEN data ELSE found]]
              ELSE cache
  /\ UNCHANGED <<request, token, scope, fetched, page, found, data>>

\* The body of updateStatus is parsed first, which may throw.
BadBody == /\ FunctionOf("handler") /\ request = "updateStatus"
           /\ FuncEnds(Thrown("other"))
           /\ UNCHANGED serviceVars

IssueToShips == Issue /\ UNCHANGED serviceVars

\* ListStarShipProperties fetches page by page ...
FetchPage == /\ FunctionOf("issuer") /\ request = "listStarShips" /\ page < MaxPages
             /\ page' = page + 1
             /\ fetched' = Append(fetched, page + 1)
             /\ UNCHANGED <<vars, request, token, scope, found, data, cache>>

\* ... until the last one, and GetStarShipProperties gets one ship.
CallSucceeds == /\ FunctionOf("issuer") /\ CallEnds(Status("ok"))
                /\ IF request = "listStarShips" THEN page = MaxPages /\ UNCHANGED found
                                                ELSE found' = "ship"
                /\ page' = 0
                /\ UNCHANGED <<request, token, scope, fetched, data, cache>>

CallFails == /\ FunctionOf("issuer") /\ page < MaxPages
             /\ \E o \in CalleeErrors : CallEnds(o)
             /\ page' = 0
             /\ UNCHANGED <<request, token, scope, fetched, found, data, cache>>

Ascend == /\ \/ RetryRequest \/ PostAfterStatus \/ NoPostAfterInvalid
             \/ PostAfterException \/ HandleException
          /\ UNCHANGED serviceVars

\* Core, and the function of the handler: ListStarShips takes what the client
\* returns; GetStarShip and UpdateStatus throw out_of_range for no ship.
AllPages == \A p \in 1 .. MaxPages : p \in ToSet(fetched)
CoreEnds ==
  /\ CallOver
  /\ IF outcome.thrown THEN outcome' = outcome /\ UNCHANGED data
     ELSE IF request = "listStarShips"
     THEN outcome' = Status("ok") /\ data' = IF AllPages THEN "listing" ELSE "part"
     ELSE IF found # Nothing THEN /\ outcome' = Status("ok")
                        /\ data' = IF request = "getStarShip" THEN "ship" ELSE "update"
     ELSE outcome' = Thrown("out_of_range") /\ UNCHANGED data
  /\ UNCHANGED <<request, token, scope, fetched, page, found, cache>>

Respond == RequestOver /\ UNCHANGED serviceVars

\* The next request; since the last one of this kind, the LRU cache of the
\* client may have evicted the ship.
NextRequest ==
  /\ stage = "done" /\ request # "other"
  /\ request' \in Requests /\ token' \in DOMAIN Granted
  /\ scope' \in {{}, {"read", "write"}}
  /\ level' = "handler" /\ stage' = "compose" /\ hooks' = HooksOf(request')
  /\ at' = [l \in Levels |-> 0]
  /\ outcome' = Status("ok") /\ ends' = [l \in Levels |-> Status("ok")]
  /\ retries' = [l \in Levels |-> 0] /\ pending' = [l \in Levels |-> << >>]
  /\ fetched' = << >> /\ page' = 0 /\ found' = Nothing /\ data' = Nothing
  /\ cache' \in {cache, [cache EXCEPT !["issuer"] = InvalidElement]}

OurRequest ==
  /\ request # "other"
  /\ \/ Authenticate \/ Authorize \/ Enter
     \/ UseCache \/ MissCache \/ FillCache
     \/ BadBody \/ IssueToShips
     \/ FetchPage \/ CallSucceeds \/ CallFails
     \/ Ascend \/ CoreEnds \/ Respond \/ NextRequest

NextService == OtherRequest \/ OurRequest

SpecService == InitService /\ [][NextService]_allVars

-----------------------------------------------------------------------------
\* Nothing is answered or changed for a request whose token does not grant the
\* scope required, whatever claims its metadata bring and whatever is cached.
OnlyAuthorizedAreServed ==
  request # "other" /\ data # Nothing => Required(request) \in Granted[token]

\* A listing that is answered with success holds the ships of every page, and
\* so does the one that is cached for ever; although neither the core nor the
\* client looks at the status of the request to the ships.
AnsweredListingIsComplete ==
  /\ stage = "done" /\ request = "listStarShips" /\ Response = 200 => data = "listing"
  /\ cache["handler"] # InvalidElement => cache["handler"].value = "listing"

\* A ship that the external service does not know is an error of the client,
\* also when that is known from the cache: a bad request, as for any
\* out_of_range, and not the 404 of which the comment in GetStarShip speaks.
UnknownShipIsAClientError ==
  stage = "done" /\ request \in {"getStarShip", "updateStatus"} /\ ends["issuer"] = Status("not_found")
    => Response = 400
=============================================================================
