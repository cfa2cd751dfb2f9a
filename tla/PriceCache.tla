------------------------------ MODULE PriceCache ------------------------------
(***************************************************************************)
(* The shared price cache with its background refresh, and the collector    *)
(* that records prices (internal/chain/prices.go and                        *)
(* internal/backtesting/price_collector.go).  A price is represented by the *)
(* age of its quote; ages saturate at MaxAge.  Calls of Get that miss       *)
(* share one flight per pair.                                               *)
(***************************************************************************)
EXTENDS Integers, Sequences, FiniteSets

CONSTANTS
    Pairs,   \* (chain, pair) keys
    Readers, \* tasks that read prices
    TTL,     \* units an entry is fresh
    Timeout, \* units after which a quote call has ended
    NoPair

ASSUME TTLAssumption == TTL \in Nat \ {0} /\ Timeout \in Nat

VARIABLES
    entries,   \* pair -> [quote, stored] ages, for the pairs that have an entry
    flights,   \* pair -> [quote, fetching] of the flight there is
    want,      \* caller -> the pair whose flight it waits for, or NoPair
    passes,    \* caller -> pairs left of the pass of the refresher or collector
    dropped,   \* the pair the refresher has just invalidated, or NoPair
    pinned,    \* pairs the refresher warms
    stopping,  \* Stop was called
    stopped,   \* the refresh loop has returned
    forgotten, \* history: pair -> age of its last Invalidate with no flight, or MaxAge
    returned   \* [pair, quote] the last step returned to its callers

priceVars == <<entries, flights, want, passes, dropped, pinned, stopping, stopped, forgotten, returned>>

MaxAge == TTL + Timeout + 1
Callers == Readers \cup {"refresher", "collector"}

PriceInit ==
    /\ entries = [p \in {} |-> [quote |-> 0, stored |-> 0]]
    /\ flights = [p \in {} |-> [quote |-> 0, fetching |-> FALSE]]
    /\ want = [c \in Callers |-> NoPair]
    /\ passes = [c \in {"refresher", "collector"} |-> {}]
    /\ dropped = NoPair
    /\ pinned = {}
    /\ stopping = FALSE /\ stopped = FALSE
    /\ forgotten = [p \in Pairs |-> MaxAge]
    /\ returned = {}

Put(f, p, v) == [q \in DOMAIN f \cup {p} |-> IF q = p THEN v ELSE f[q]]
Drop(f, p) == [q \in DOMAIN f \ {p} |-> f[q]]

\* Variant: an entry never expires.
FreshForever(p) == p \in DOMAIN entries

Fresh(p) == p \in DOMAIN entries /\ entries[p].stored < TTL

\* Get: a fresh entry is returned; else the caller joins the flight of the
\* pair, or starts one.
Get(c, p) ==
    /\ want[c] = NoPair
    /\ \/ /\ Fresh(p)
          /\ returned' = {[pair |-> p, quote |-> entries[p].quote]}
          /\ UNCHANGED <<flights, want>>
       \/ /\ ~Fresh(p)
          /\ want' = [want EXCEPT ![c] = p]
          /\ flights' = IF p \in DOMAIN flights THEN flights
                        ELSE Put(flights, p, [quote |-> 0, fetching |-> FALSE])
          /\ returned' = {}

\* A flight ends: its callers get the price, if there is one.
Land(p, prices) ==
    /\ flights' = Drop(flights, p)
    /\ want' = [c \in Callers |-> IF want[c] = p THEN NoPair ELSE want[c]]
    /\ returned' = {[pair |-> p, quote |-> q] : q \in prices}

\* The second look inside the flight; if it misses, the quote is asked for.
DoubleCheck(p) ==
    /\ p \in DOMAIN flights /\ ~flights[p].fetching
    /\ \/ Fresh(p) /\ Land(p, {entries[p].quote})
       \/ /\ ~Fresh(p)
          /\ flights' = [flights EXCEPT ![p] = [quote |-> 0, fetching |-> TRUE]]
          /\ returned' = {}
          /\ UNCHANGED want
    /\ UNCHANGED <<entries, passes, dropped, pinned, stopping, stopped, forgotten>>

\* The quote comes back and is stored as of now, whatever happened to the
\* entry in the meantime.
FetchOK(p) ==
    /\ p \in DOMAIN flights /\ flights[p].fetching
    /\ entries' = Put(entries, p, [quote |-> flights[p].quote, stored |-> 0])
    /\ Land(p, {flights[p].quote})
    /\ UNCHANGED <<passes, dropped, pinned, stopping, stopped, forgotten>>

\* The client fails, the price is not positive or the context of the caller
\* that started the flight ends: an error for everyone.
FetchFails(p) ==
    /\ p \in DOMAIN flights /\ flights[p].fetching
    /\ Land(p, {})
    /\ UNCHANGED <<entries, passes, dropped, pinned, stopping, stopped, forgotten>>

\* A task reads a price.
ReadPrice(c, p) ==
    /\ c \in Readers /\ Get(c, p)
    /\ UNCHANGED <<entries, passes, dropped, pinned, stopping, stopped, forgotten>>

\* Variant: the key of the entry is not the key that is deleted.
ForgetNothing(p) == entries

Forget(p) == Drop(entries, p)

\* Invalidate deletes the entry; a flight goes on.
Invalidate(p) ==
    /\ entries' = Forget(p)
    /\ forgotten' = IF p \in DOMAIN flights THEN forgotten ELSE [forgotten EXCEPT ![p] = 0]

\* The strategist suspects stale data.
Suspect(p) ==
    /\ Invalidate(p)
    /\ returned' = {}
    /\ UNCHANGED <<flights, want, passes, dropped, pinned, stopping, stopped>>

SetPinned(p) ==
    /\ pinned' = IF p \in pinned THEN pinned \ {p} ELSE pinned \cup {p}
    /\ returned' = {}
    /\ UNCHANGED <<entries, flights, want, passes, dropped, stopping, stopped, forgotten>>

Refreshing == passes["refresher"] # {} \/ want["refresher"] # NoPair \/ dropped # NoPair

\* The refresh ticker fires: refreshPinned takes the list of pinned pairs.
StartRefresh ==
    /\ ~stopped /\ ~Refreshing /\ pinned # {}
    /\ passes' = [passes EXCEPT !["refresher"] = pinned]
    /\ returned' = {}
    /\ UNCHANGED <<entries, flights, want, dropped, pinned, stopping, stopped, forgotten>>

\* One pair of the pass is forgotten and then asked for: in between a flight
\* may have stored its price.
RefreshForgets(p) ==
    /\ p \in passes["refresher"] /\ want["refresher"] = NoPair /\ dropped = NoPair
    /\ Invalidate(p)
    /\ passes' = [passes EXCEPT !["refresher"] = @ \ {p}]
    /\ dropped' = p
    /\ returned' = {}
    /\ UNCHANGED <<flights, want, pinned, stopping, stopped>>

RefreshGets(p) ==
    /\ dropped = p /\ Get("refresher", p)
    /\ dropped' = NoPair
    /\ UNCHANGED <<entries, passes, pinned, stopping, stopped, forgotten>>

\* Stop closes the channel; the loop sees it between two passes.
Stop ==
    /\ ~stopping
    /\ stopping' = TRUE /\ returned' = {}
    /\ UNCHANGED <<entries, flights, want, passes, dropped, pinned, stopped, forgotten>>

LoopExits ==
    /\ stopping /\ ~stopped /\ ~Refreshing
    /\ stopped' = TRUE /\ returned' = {}
    /\ UNCHANGED <<entries, flights, want, passes, dropped, pinned, stopping, forgotten>>

\* CollectOnce over the active pairs; a pair that fails does not end the pass.
StartCollect ==
    /\ passes["collector"] = {} /\ want["collector"] = NoPair
    /\ passes' = [passes EXCEPT !["collector"] = Pairs]
    /\ returned' = {}
    /\ UNCHANGED <<entries, flights, want, dropped, pinned, stopping, stopped, forgotten>>

CollectPair(p) ==
    /\ p \in passes["collector"] /\ Get("collector", p)
    /\ passes' = [passes EXCEPT !["collector"] = @ \ {p}]
    /\ UNCHANGED <<entries, dropped, pinned, stopping, stopped, forgotten>>

\* Time passes; a quote call that reaches its timeout ends first.
PriceClock ==
    LET older(a) == IF a < MaxAge THEN a + 1 ELSE a
    IN  /\ \A p \in DOMAIN flights : flights[p].fetching /\ flights[p].quote < Timeout
        /\ entries' = [p \in DOMAIN entries |-> [quote |-> older(entries[p].quote),
                                                 stored |-> older(entries[p].stored)]]
        /\ flights' = [p \in DOMAIN flights |-> [flights[p] EXCEPT !.quote = older(@)]]
        /\ forgotten' = [p \in Pairs |-> older(forgotten[p])]
        /\ returned' = {}
        /\ UNCHANGED <<want, passes, dropped, pinned, stopping, stopped>>

PriceNext ==
    \/ \E p \in Pairs :
         \/ DoubleCheck(p) \/ FetchOK(p) \/ FetchFails(p) \/ Suspect(p) \/ SetPinned(p)
         \/ RefreshForgets(p) \/ RefreshGets(p) \/ CollectPair(p)
         \/ \E c \in Readers : ReadPrice(c, p)
    \/ StartRefresh \/ StartCollect \/ Stop \/ LoopExits \/ PriceClock

-----------------------------------------------------------------------------

\* No caller ever gets a price whose quote is older than the TTL and the
\* longest quote call together, however reads, shared flights, refreshes and
\* the collector interleave (prices.go:103-141, 249-258).
QuoteAgeBounded == \A r \in returned : r.quote < TTL + Timeout

\* After an Invalidate at a moment when no quote of the pair is on its way, no
\* caller gets a price that was quoted before it; only a flight that was under
\* way at that moment can bring an older price back (prices.go:117-136 and
\* 199-206).
InvalidateForgets == \A r \in returned : r.quote <= forgotten[r.pair]

=============================================================================
