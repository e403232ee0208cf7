------------------------------ MODULE UrlService ------------------------------
(***************************************************************************)
(* The URL shortener that the orchestrator builds (service/app): the       *)
(* requests its thread pool serves at the same time, over one database,    *)
(* one LRU cache of redirects, one store of idempotency keys and one token *)
(* bucket.  Each call of those four is atomic, the requests interleave     *)
(* between the calls.                                                      *)
(*                                                                         *)
(* The owner token and the destination of a URL are unique to the request  *)
(* that created it, and are that request here.  Days are the ticks of the  *)
(* clock.  Two things are remembered that the code does not keep, because  *)
(* the properties speak of them: with a request, which ones had their      *)
(* answer when it came, and with a cached redirect, which request read it. *)
(***************************************************************************)
EXTENDS Naturals, FiniteSets, SequencesExt

CONSTANTS
    Requests,       \* the requests that will ever be made
    Operations,     \* what they may ask for
    Codes,          \* short codes
    Keys,           \* idempotency keys, None for a request without one
    None,           \* no key, no row, no entry; as a token, a wrong one
    NonAscii,       \* an owner token that is not ASCII
    MaxCodeTries,   \* SHORT_CODE_MAX_ATTEMPTS
    Threshold,      \* REPORT_THRESHOLD
    CacheSize,      \* REDIRECT_CACHE_SIZE
    Ttl,            \* IDEMPOTENCY_TTL_SECONDS, in ticks
    Capacity,       \* RATE_LIMIT_CAPACITY of the one client
    NaiveExpiries,  \* whether clients give expiries without a time zone
    MaxConcurrent,  \* threads serving requests
    MaxTime         \* bound: ticks of the clock

ASSUME ServiceAssumption ==
    /\ Operations \subseteq {"create", "redirect", "report", "delete", "analytics",
                      "metadata"}
    /\ None \notin Codes \cup Requests /\ NonAscii \notin Requests \cup {None}
    /\ MaxCodeTries \in Nat \ {0} /\ Threshold \in Nat /\ CacheSize \in Nat
    /\ Ttl \in Nat /\ Capacity \in Nat /\ NaiveExpiries \in BOOLEAN
    /\ MaxConcurrent \in Nat \ {0} /\ MaxTime \in Nat

VARIABLES
    urls,    \* the table urls, by code
    clicks,  \* the table clicks, by code and day
    cache,   \* the LRU cache, least recently used first
    idem,    \* the idempotency store, by key
    tokens,  \* the token bucket
    clock,
    req      \* the requests: program counter, arguments, locals and answer

vars == <<urls, clicks, cache, idem, tokens, clock, req>>

Days == 0 .. MaxTime
Never == MaxTime + 1  \* no expiry, or one after the bound
Expired(entry, now) == entry.expires <= now

Rows == [owner : Requests, expires : 1 .. Never, naive : BOOLEAN, count : Nat,
         reports : Nat, flagged : BOOLEAN]

Entries == [code : Codes, owner : Requests, expires : 1 .. Never, by : Requests]

Memories == [code : Codes, owner : Requests, at : Days]

ASSUME NoneAssumption == None \notin Rows \cup Entries \cup Memories

NoClicks == [day \in Days |-> 0]
NotYet == [op |-> "none", pc |-> "new", code |-> None, key |-> None, token |-> None,
           now |-> 0, tries |-> 0, link |-> None, barred |-> FALSE, after |-> {},
           answer |-> "none"]

Init ==
    /\ urls = [c \in Codes |-> None]
    /\ clicks = [c \in Codes |-> NoClicks]
    /\ cache = <<>>
    /\ idem = [k \in Keys \ {None} |-> None]
    /\ tokens = Capacity
    /\ clock = 0
    /\ req = [r \in Requests |-> NotYet]

At(r, place) == req[r].pc = place
Goto(r, place) == req' = [req EXCEPT ![r].pc = place]
(* The time that matters afterwards is that of the answer to a create. *)
Reply(r, answer) ==
    req' = [req EXCEPT ![r] = [@ EXCEPT !.pc = "answered", !.answer = answer,
                                        !.now = IF answer = "created" THEN clock ELSE 0,
                                        !.tries = 0, !.link = None]]
Active == {r \in Requests : req[r].pc \notin {"new", "answered"}}

Start(r, op, place, args) ==
    /\ At(r, "new")
    /\ op \in Operations
    /\ Cardinality(Active) < MaxConcurrent
    /\ req' = [req EXCEPT ![r] = [args EXCEPT !.op = op, !.pc = place, !.now = clock,
                                              !.after = {q \in Requests : At(q, "answered")}]]
    /\ UNCHANGED <<urls, clicks, cache, idem, tokens, clock>>

-----------------------------------------------------------------------------
(* The cache *)

CachedAt(c) == {n \in 1 .. Len(cache) : cache[n].code = c}
Place(c) == CHOOSE n \in CachedAt(c) : TRUE
Cached(c) == cache[Place(c)]
Dropped(c) == IF CachedAt(c) = {} THEN cache ELSE RemoveAt(cache, Place(c))

(* Bug: a full cache grows. *)
StoredBeyond(entry) == Append(Dropped(entry.code), entry)
(* cache.set: the newest comes last, and the oldest goes if there is no room. *)
Stored(entry) ==
    LET longer == Append(Dropped(entry.code), entry)
    IN  IF Len(longer) > CacheSize THEN Tail(longer) ELSE longer

(* Bug: the entry stays where it is. *)
NotDropped(c) == cache
(* cache.invalidate *)
Invalidated(c) == Dropped(c)

-----------------------------------------------------------------------------
(* POST /api/urls *)

Create(r, key) ==
    Start(r, "create", IF key = None THEN "limit" ELSE "replay", [NotYet EXCEPT !.key = key])

(* Bug: what has the age of the limit is dropped already. *)
KeptShorter == [k \in DOMAIN idem |-> IF idem[k] # None /\ clock - idem[k].at >= Ttl THEN None
                                      ELSE idem[k]]
(* idempotency_store.get drops what is too old; a key that is still        *)
(* remembered answers the request.                                         *)
Kept == [k \in DOMAIN idem |-> IF idem[k] # None /\ clock - idem[k].at > Ttl THEN None
                               ELSE idem[k]]
Replay(r) ==
    /\ At(r, "replay")
    /\ idem' = Kept
    /\ LET entry == Kept[req[r].key] IN
         IF entry = None
           THEN Goto(r, "limit")
           ELSE req' = [req EXCEPT ![r].pc = "answered", ![r].answer = "replayed",
                                   ![r].code = entry.code]
    /\ UNCHANGED <<urls, clicks, cache, tokens, clock>>

(* enforce_rate_limit *)
Limit(r) ==
    /\ At(r, "limit")
    /\ \/ tokens = 0 /\ Reply(r, "limited") /\ UNCHANGED tokens
       \/ tokens > 0 /\ tokens' = tokens - 1 /\ Goto(r, "screen")
    /\ UNCHANGED <<urls, clicks, cache, idem, clock>>

(* The denylist: the token is gone even if the destination is not allowed. *)
Screen(r) ==
    /\ At(r, "screen")
    /\ Goto(r, "generate") \/ Reply(r, "refused")
    /\ UNCHANGED <<urls, clicks, cache, idem, tokens, clock>>

(* Bug: the tries are not counted. *)
TriedUncounted(r) == req[r].tries
Tried(r) == req[r].tries + 1

(* Bug: every candidate will do. *)
AnyCode(c) == TRUE
(* db.code_exists says no. *)
Free(c) == urls[c] = None

(* generate_code: a random candidate that is free, in a bounded number of  *)
(* tries.                                                                  *)
Generate(r, c) ==
    /\ At(r, "generate")
    /\ IF Free(c)
         THEN req' = [req EXCEPT ![r].pc = "insert", ![r].code = c]
         ELSE IF Tried(r) = MaxCodeTries THEN Reply(r, "exhausted")
                                         ELSE req' = [req EXCEPT ![r].tries = Tried(r)]
    /\ UNCHANGED <<urls, clicks, cache, idem, tokens, clock>>

(* The primary key of urls is free. *)
Insertable(c) == urls[c] = None

(* What a request may ask for: no expiry, or one in the future, which the  *)
(* validator takes for UTC if it has no time zone.                         *)
Expiries(now) == (now + 1 .. Never) \X (IF NaiveExpiries THEN BOOLEAN ELSE {FALSE})

Insert(r) ==
    /\ At(r, "insert")
    /\ IF Insertable(req[r].code)
         THEN /\ \E expiry \in Expiries(req[r].now) :
                   urls' = [urls EXCEPT ![req[r].code] =
                              [owner |-> r, expires |-> expiry[1], naive |-> expiry[2],
                               count |-> 0, reports |-> 0, flagged |-> FALSE]]
              /\ IF req[r].key = None THEN Reply(r, "created") ELSE Goto(r, "remember")
         ELSE Reply(r, "error") /\ UNCHANGED urls
    /\ UNCHANGED <<clicks, cache, idem, tokens, clock>>

(* idempotency_store.put *)
Remembered(r) == [idem EXCEPT ![req[r].key] = [code |-> req[r].code, owner |-> r, at |-> clock]]

Remember(r) ==
    /\ At(r, "remember")
    /\ idem' = Remembered(r)
    /\ Reply(r, "created")
    /\ UNCHANGED <<urls, clicks, cache, tokens, clock>>

-----------------------------------------------------------------------------
(* GET /{code} *)

(* barred: the URL was flagged, and every report answered, when it came.   *)
Redirect(r, c) ==
    Start(r, "redirect", "lookup",
          [NotYet EXCEPT !.code = c,
               !.barred = /\ urls[c] # None /\ urls[c].flagged
                          /\ \A q \in Active : req[q].code = c => req[q].op # "report"])

Lookup(r) ==
    /\ At(r, "lookup")
    /\ LET c == req[r].code IN
         IF CachedAt(c) = {}
           THEN Goto(r, "read") /\ UNCHANGED cache
           ELSE /\ cache' = Append(Dropped(c), Cached(c))
                /\ IF Expired(Cached(c), req[r].now)
                     THEN Goto(r, "evict")
                     ELSE req' = [req EXCEPT ![r].pc = "click", ![r].link = Cached(c)]
    /\ UNCHANGED <<urls, clicks, idem, tokens, clock>>

(* The comparison of an expiry without a time zone with the time fails.    *)
Read(r) ==
    /\ At(r, "read")
    /\ LET row == urls[req[r].code] IN
         IF row = None THEN Reply(r, "missing")
         ELSE IF row.flagged THEN Reply(r, "flagged")
         ELSE IF row.naive THEN Reply(r, "error")
         ELSE IF Expired(row, req[r].now) THEN Reply(r, "gone")
         ELSE req' = [req EXCEPT ![r].pc = "fill", ![r].link = row]
    /\ UNCHANGED <<urls, clicks, cache, idem, tokens, clock>>

Fill(r) ==
    /\ At(r, "fill")
    /\ LET row == req[r].link
           entry == [code |-> req[r].code, owner |-> row.owner, expires |-> row.expires,
                     by |-> r]
       IN  /\ cache' = Stored(entry)
           /\ req' = [req EXCEPT ![r].pc = "click", ![r].link = entry]
    /\ UNCHANGED <<urls, clicks, idem, tokens, clock>>

(* Bug: the first click of a day is the only one. *)
CountedOnce(days, day) == [days EXCEPT ![day] = 1]
(* The upsert of the clicks of a day. *)
CountedOn(days, day) == [days EXCEPT ![day] = @ + 1]

(* record_click: one transaction.  Without a row, the foreign key of the   *)
(* clicks refuses it and the request fails.                                *)
Click(r) ==
    /\ At(r, "click")
    /\ LET c == req[r].code IN
         IF urls[c] = None
           THEN Reply(r, "error") /\ UNCHANGED <<urls, clicks>>
           ELSE /\ urls' = [urls EXCEPT ![c].count = @ + 1]
                /\ clicks' = [clicks EXCEPT ![c] = CountedOn(@, req[r].now)]
                /\ Reply(r, "redirected")
    /\ UNCHANGED <<cache, idem, tokens, clock>>

-----------------------------------------------------------------------------
(* POST /api/urls/{code}/report, DELETE, GET .../analytics and metadata *)

(* The owner token of a URL, or a wrong one. *)
OwnerTokens == {r \in Requests : req[r].answer = "created"} \cup {None, NonAscii}

Report(r, c) == Start(r, "report", "check", [NotYet EXCEPT !.code = c])
Delete(r, c, token) ==
    Start(r, "delete", "check", [NotYet EXCEPT !.code = c, !.token = token])
Analytics(r, c) == Start(r, "analytics", "check", [NotYet EXCEPT !.code = c])

(* compare_digest fails, instead of refusing, if the token is not ASCII. *)
Check(r) ==
    /\ At(r, "check")
    /\ LET row == urls[req[r].code] IN
         IF row = None THEN Reply(r, "missing")
         ELSE IF req[r].op = "delete" /\ req[r].token = NonAscii THEN Reply(r, "error")
         ELSE IF req[r].op = "delete" /\ row.owner # req[r].token THEN Reply(r, "forbidden")
         ELSE req' = [req EXCEPT ![r].pc = req[r].op, ![r].link = row]
    /\ UNCHANGED <<urls, clicks, cache, idem, tokens, clock>>

(* Bug: the report after the last one. *)
FlagsLate(row) == row.reports > Threshold
(* The reports, the one just made included, reach the threshold. *)
Flags(row) == row.reports >= Threshold

(* db.report_url: one transaction.  If the URL has gone since the check,   *)
(* there is no row to look at and the request fails.                       *)
CountReport(r) ==
    /\ At(r, "report")
    /\ LET row == urls[req[r].code] IN
         IF row = None
           THEN Reply(r, "error") /\ UNCHANGED urls
           ELSE LET counted == [row EXCEPT !.reports = @ + 1]
                    flagged == row.flagged \/ Flags(counted)
                IN  /\ urls' = [urls EXCEPT ![req[r].code] = [counted EXCEPT !.flagged = flagged]]
                    /\ IF flagged THEN Goto(r, "evict") ELSE Reply(r, "reported")
    /\ UNCHANGED <<clicks, cache, idem, tokens, clock>>

(* Bug: PRAGMA foreign_keys is off, as SQLite has it by default. *)
KeptWithoutUrl(c) == clicks
(* The clicks go with their URL. *)
Cascaded(c) == [clicks EXCEPT ![c] = NoClicks]

(* db.delete_url: by code alone, whoever has it by now.                    *)
DeleteRow(r) ==
    /\ At(r, "delete")
    /\ urls' = [urls EXCEPT ![req[r].code] = None]
    /\ clicks' = Cascaded(req[r].code)
    /\ Goto(r, "evict")
    /\ UNCHANGED <<cache, idem, tokens, clock>>

(* cache.invalidate, by a redirect that found an expired entry, a report   *)
(* that flagged or a delete.                                               *)
Evict(r) ==
    /\ At(r, "evict")
    /\ cache' = Invalidated(req[r].code)
    /\ CASE req[r].op = "redirect" -> Goto(r, "read")
         [] req[r].op = "report" -> Reply(r, "reported")
         [] req[r].op = "delete" -> Reply(r, "deleted")
    /\ UNCHANGED <<urls, clicks, idem, tokens, clock>>

(* The second read of get_analytics. *)
Series(r) ==
    /\ At(r, "analytics")
    /\ Reply(r, "analytics")
    /\ UNCHANGED <<urls, clicks, cache, idem, tokens, clock>>

Metadata(r, c) == Start(r, "metadata", "metadata", [NotYet EXCEPT !.code = c])

(* A flagged URL is described like any other. *)
Describe(r) ==
    /\ At(r, "metadata")
    /\ LET row == urls[req[r].code] IN
         IF row = None THEN Reply(r, "missing")
         ELSE IF row.naive THEN Reply(r, "error")
         ELSE IF Expired(row, clock) THEN Reply(r, "gone")
         ELSE Reply(r, "metadata")
    /\ UNCHANGED <<urls, clicks, cache, idem, tokens, clock>>

-----------------------------------------------------------------------------
(* Time *)

Tick ==
    /\ clock < MaxTime
    /\ clock' = clock + 1
    /\ tokens' \in tokens .. Capacity
    /\ UNCHANGED <<urls, clicks, cache, idem, req>>

Arrive(r) ==
    \/ \E key \in Keys : Create(r, key)
    \/ \E c \in Codes : \/ Redirect(r, c) \/ Report(r, c) \/ Analytics(r, c) \/ Metadata(r, c)
                        \/ \E token \in OwnerTokens : Delete(r, c, token)

Serve(r) ==
    \/ Replay(r) \/ Limit(r) \/ Screen(r) \/ Insert(r) \/ Remember(r)
    \/ \E c \in Codes : Generate(r, c)
    \/ Lookup(r) \/ Read(r) \/ Fill(r) \/ Click(r)
    \/ Check(r) \/ CountReport(r) \/ DeleteRow(r) \/ Evict(r) \/ Series(r) \/ Describe(r)

Next ==
    \/ \E r \in Requests : Arrive(r) \/ Serve(r)
    \/ Tick

(* Every thread that serves a request gets on. *)
Spec == Init /\ [][Next]_vars /\ \A r \in Requests : WF_vars(Serve(r))

-----------------------------------------------------------------------------
(* Properties *)

(* Every variable holds what the code can store in it; the cache is never  *)
(* larger than it may be and has at most one entry for a code.             *)
WellFormed ==
    /\ urls \in [Codes -> Rows \cup {None}]
    /\ clicks \in [Codes -> [Days -> Nat]]
    /\ cache \in Seq(Entries)
    /\ Len(cache) <= CacheSize
    /\ \A c \in Codes : Cardinality(CachedAt(c)) <= 1
    /\ idem \in [Keys \ {None} -> Memories \cup {None}]
    /\ tokens \in 0 .. Capacity
    /\ clock \in Days
    /\ \A r \in Requests : req[r].now \in Days /\ req[r].tries < MaxCodeTries

Total(days) == FoldFunction(LAMBDA n, m : n + m, 0, days)

(* The clicks of a URL add up, over the days, to its counter, and none are *)
(* left behind for the next URL with the same code (db.py:90-104).         *)
ClicksAgree ==
    \A c \in Codes :
        IF urls[c] = None THEN clicks[c] = NoClicks
        ELSE urls[c].count = Total(clicks[c])

(* The total and the series of an analytics answer are read one after the  *)
(* other: the series may be ahead of the total, and shorter than it only   *)
(* if the URL was deleted in between (analytics.py:15-18).                 *)
SeriesCoversTotal ==
    \A r \in Requests : At(r, "analytics") =>
        LET row == urls[req[r].code] IN
        row # None /\ row.owner = req[r].link.owner =>
            Total(clicks[req[r].code]) >= req[r].link.count

(* However many report at once, a URL is flagged by the report that        *)
(* reaches the threshold, no sooner and no later (db.py:115-118).          *)
FlaggedAtThreshold ==
    \A c \in Codes : urls[c] # None =>
        (urls[c].flagged <=> urls[c].reports > 0 /\ urls[c].reports >= Threshold)

(* Neither request had its answer when the other one came. *)
Overlapped(r, q) == r \notin req[q].after /\ q \notin req[r].after

(* What a delete or a report of c has written but not yet evicted. *)
Evicting(op, c) == \E q \in Requests : At(q, "evict") /\ req[q].op = op /\ req[q].code = c

(* A delete or a report of c has made its change, and overlapped r. *)
Wrote(q, op, c) ==
    /\ req[q].op = op /\ req[q].code = c
    /\ At(q, "evict") \/ req[q].answer \in {"deleted", "reported"}
WrittenDuring(r, op, c) == \E q \in Requests : Wrote(q, op, c) /\ Overlapped(q, r)

(* The URL that was read has been deleted since. *)
Gone(c, owner) == urls[c] = None \/ urls[c].owner # owner

(* A cached redirect is what the database would answer, up to the delete   *)
(* or the report that is about to evict it, and except if a delete or a    *)
(* report overlapped the redirect that put it there, which may have read   *)
(* the database before the change and filled the cache after the eviction  *)
(* (redirect.py:28-40, urls.py:97-102, 116-117).                           *)
CacheIsFresh ==
    \A n \in 1 .. Len(cache) :
        LET entry == cache[n]
            c == entry.code
            Excused(op) == Evicting(op, c) \/ WrittenDuring(entry.by, op, c)
        IN  IF Gone(c, entry.owner) THEN Excused("delete")
            ELSE /\ entry.expires = urls[c].expires
                 /\ urls[c].flagged => Excused("report")

(* What may make request r fail internally: a create whose code another    *)
(* one took between the check and the insertion, a URL stored with an      *)
(* expiry without a time zone, an owner token that is not ASCII, a report  *)
(* or a click of a URL that was deleted since it was looked up, or, by     *)
(* a click, since it was read for the cache.                               *)
MayFail(r) ==
    LET c == req[r].code
        row == urls[c]
    IN  \/ req[r].op = "create" /\ row # None /\ Overlapped(r, row.owner)
        \/ req[r].op \in {"redirect", "metadata"} /\ row # None /\ row.naive
        \/ req[r].op = "delete" /\ req[r].token = NonAscii
        \/ /\ req[r].op \in {"report", "redirect"} /\ row = None
           /\ \/ WrittenDuring(r, "delete", c)
              \/ req[r].op = "redirect" /\ WrittenDuring(req[r].link.by, "delete", c)

(* A request is answered with an internal error, which the API does not    *)
(* document (service/README.md:77-114), in these cases alone: the ones     *)
(* between two requests need that they overlapped (urls.py:51-65, 94-97,   *)
(* 114, redirect.py:19-42).                                                *)
ErrorsHaveCauses ==
    [][\A r \in Requests :
          req[r].answer # "error" /\ req'[r].answer = "error" => MayFail(r)]_vars

(* A request that comes after another one with the same key was answered   *)
(* makes a URL of its own only when the key has been forgotten, more than  *)
(* Ttl later: two URLs for one key in that time are made by requests that  *)
(* overlap (service/README.md:59-61, urls.py:39-42, 70-71).                *)
OneUrlPerKey ==
    \A r, q \in Requests :
        /\ req[r].answer = "created" /\ req[q].answer = "created"
        /\ req[r].key = req[q].key /\ req[r].key # None
        /\ q \in req[r].after
        => req[r].now > req[q].now + Ttl

(* A URL that was flagged before a redirect came in is not redirected to   *)
(* (service/README.md:92-93).                                              *)
FlaggedAreBarred ==
    \A r \in Requests : req[r].barred => req[r].answer # "redirected"

(* A redirect does go to a URL that was flagged before it came, but only   *)
(* if the URL was deleted meanwhile, or if the redirect that put it in the *)
(* cache overlapped a report or a delete of it (redirect.py:28-42,         *)
(* urls.py:97-102).                                                        *)
BarredUnlessOverlapped ==
    [][\A r \in Requests :
          /\ req[r].barred
          /\ req[r].answer # "redirected" /\ req'[r].answer = "redirected"
          => LET c == req[r].code
                 by == req[r].link.by
             IN  \/ WrittenDuring(r, "delete", c)
                 \/ WrittenDuring(by, "delete", c) \/ WrittenDuring(by, "report", c)]_vars

(* Every request gets its answer. *)
Answered == \A r \in Requests : ~At(r, "new") ~> At(r, "answered")
=============================================================================
