------------------------------ MODULE BlackList ------------------------------
(***************************************************************************)
(* The black list (blacklist.cpp): rules read from a file into a radix     *)
(* tree, the count of the connections each address makes, and the bans of  *)
(* the addresses that make too many.  ConnectionBase::loadBlacklist reads  *)
(* the rules before the server runs; afterwards the IO thread alone calls  *)
(* processIp, once for every connection accepted.                          *)
(*                                                                         *)
(* An address is a string of AddrLen bits in host order, a rule is about   *)
(* the addresses that begin with its prefix.  Time is in ticks.            *)
(***************************************************************************)
EXTENDS RadixTree, Integers

CONSTANTS
    AddrLen,
    Lines,           \* the rules a file may have, each once: [prefix, allow]
    MaxRules,        \* rules of a file, those that are skipped among them
    Clients,         \* addresses that connect
    Second,          \* ticks in a second
    RequestsPerSec,  \* requests-per-sec: 0 disables the count
    WindowSec,       \* window-size-sec
    BanSecs,         \* values of ban-ip-sec: 0 is for ever
    MaxBans,         \* bans at a time
    MaxTime

ASSUME BlackListAssumption ==
    /\ Second \in Nat \ {0} /\ WindowSec \in Nat \ {0} /\ RequestsPerSec \in Nat
    /\ AddrLen \in Nat \ {0}
    /\ Lines \subseteq [prefix : UNION {[1..n -> {0, 1}] : n \in 1..AddrLen}, allow : BOOLEAN]
    /\ Clients \subseteq [1..AddrLen -> {0, 1}]
    /\ BanSecs \subseteq Nat
    /\ Inner \notin BOOLEAN

VARIABLES
    stage,     \* "reading", "closed" (an 'all' rule was read), "serving", "failed" or "broken"
    table,     \* m_table
    default,   \* m_defaultAllow
    ipwnd,     \* m_ipwnd: [start, count] of each address that has a window
    banned,    \* m_bannedIPs: [until, addr], oldest first
    banSec,    \* ban-ip-sec of this configuration
    now,
    rules,     \* history: [prefix, allow, kept] of each rule of the file; kept: it went into the table
    hits,      \* history: when each address was let in since it last tripped, while that is recent
    entered,   \* history: when each address was let in, trips or not, while that is recent; only
               \* of the addresses that a ban keeps out for the time of a window
    tripped    \* history: when each address last made too many requests; Never

blackListVars == <<stage, table, default, ipwnd, banned, banSec, now, rules, hits, entered, tripped>>

Never == -1
Wnd == WindowSec * Second
Limit == WindowSec * RequestsPerSec

BlackListInit ==
    /\ stage = "reading"
    /\ table = NewTree
    /\ default = TRUE
    /\ ipwnd = <<>>
    /\ banned = <<>>
    /\ banSec \in BanSecs
    /\ now = 0
    /\ rules = <<>>
    /\ hits = [a \in Clients |-> <<>>]
    /\ entered = [a \in Clients |-> <<>>]
    /\ tripped = [a \in Clients |-> Never]

----------------------------------------------------------------------------
(* readRules, a line at a time.                                            *)

\* find: what the entries of a table say of an address, and the default where none covers it.
find(t, addr) ==
    LET v == longest_match(t, addr)
    IN [found |-> v # Inner, allow |-> IF v = Inner THEN default ELSE v]

Note(prefix, allow, kept) ==
    rules' = Append(rules, [prefix |-> prefix, allow |-> allow, kept |-> kept])

Enter(prefix, allow) ==
    /\ table' = insert(table, prefix, allow)
    /\ Note(prefix, allow, TRUE)
    /\ UNCHANGED stage

\* An address a rule is about: its own bits, then zeros.
Network(prefix) == radix_substr(prefix, 0, AddrLen)

\* Faulty: the rule goes in whatever the earlier rules say of its network address.
addRuleAlways(prefix, allow) == ~PastEnd(table, prefix) /\ Enter(prefix, allow)

\* A rule is skipped with a warning when its network address is covered already, be it by a
\* rule narrower than this one.  Where the walk for a prefix goes past its end, because two
\* earlier rules part below it on the way of its zeros, insert runs into a failed assertion:
\* without assertions the tree is broken from then on, and what it answers is not followed here.
addRule(prefix, allow) ==
    LET covered == find(table, Network(prefix)).found
    IN \/ covered /\ Note(prefix, allow, FALSE) /\ UNCHANGED <<stage, table>>
       \/ ~covered /\ ~PastEnd(table, prefix) /\ Enter(prefix, allow)
       \/ /\ ~covered /\ PastEnd(table, prefix)
          /\ stage' = "broken"
          /\ UNCHANGED <<table, rules>>

ReadRule(prefix, allow) ==
    /\ stage = "reading"
    /\ Len(rules) < MaxRules
    /\ \A i \in DOMAIN rules : rules[i].prefix # prefix \/ rules[i].allow # allow
    /\ addRule(prefix, allow)
    /\ UNCHANGED <<default, ipwnd, banned, banSec, now, hits, entered, tripped>>

ReadAll(allow) ==
    /\ stage = "reading"
    /\ stage' = "closed"
    /\ default' = allow
    /\ UNCHANGED <<table, ipwnd, banned, banSec, now, rules, hits, entered, tripped>>

\* The end of the file, or the first rule behind an 'all' rule.
ReadEnd ==
    /\ stage \in {"reading", "closed"}
    /\ stage' = "serving"
    /\ UNCHANGED <<table, default, ipwnd, banned, banSec, now, rules, hits, entered, tripped>>

\* A line of no known format, with an invalid address or mask: the server does not start.
ReadInvalid ==
    /\ stage = "reading"
    /\ stage' = "failed"
    /\ UNCHANGED <<table, default, ipwnd, banned, banSec, now, rules, hits, entered, tripped>>

----------------------------------------------------------------------------
(* IpMap::inc and removeItAndNeighbor.                                     *)

NewWindow == [start |-> now, count |-> 1]

\* The window after one more request: it moves on by whole seconds, and the requests of so
\* many seconds are forgiven.
Counted(w) ==
    LET end == w.start + Wnd
        secs == (now - end) \div Second
        left == w.count - secs * RequestsPerSec
    IN IF end + Wnd < now THEN NewWindow
       ELSE IF ~(end + Second < now) THEN [w EXCEPT !.count = @ + 1]
       ELSE IF left <= 0 THEN NewWindow
       ELSE [start |-> w.start + secs * Second, count |-> left + 1]

Ahead(a, b) == \E i \in 1..AddrLen : a[i] < b[i] /\ \A j \in 1..(i - 1) : a[j] = b[j]

\* The address after this one in a map, round the end.
Neighbor(a, s) ==
    LET after == {b \in s : Ahead(a, b)}
        from == IF after = {} THEN s ELSE after
    IN CHOOSE b \in from : \A c \in from \ {b} : Ahead(b, c)

\* Faulty: any neighbor goes, old or not.
removeAnyNeighbor(w, addr, triggered) ==
    LET kept == IF triggered THEN Without(w, addr) ELSE w
    IN IF DOMAIN kept = {} THEN kept ELSE Without(kept, Neighbor(addr, DOMAIN kept))

\* What is left of the windows: not the one that triggered, nor its neighbor if that is old.
removeItAndNeighbor(w, addr, triggered) ==
    LET kept == IF triggered THEN Without(w, addr) ELSE w
        it == Neighbor(addr, DOMAIN kept)
    IN IF DOMAIN kept = {} THEN kept
       ELSE IF kept[it].start + 2 * Wnd <= now THEN Without(kept, it) ELSE kept

\* The windows and whether this request is one too many; requests-per-sec 0 counts nothing.
Inc(addr) ==
    LET w == IF addr \in DOMAIN ipwnd THEN Counted(ipwnd[addr]) ELSE NewWindow
        triggered == addr \in DOMAIN ipwnd /\ Limit < w.count
    IN IF RequestsPerSec = 0 THEN [triggered |-> FALSE, ipwnd |-> ipwnd]
       ELSE [triggered |-> triggered,
             ipwnd |-> removeItAndNeighbor(With(ipwnd, addr, w), addr, triggered)]

----------------------------------------------------------------------------
(* processIp: the bans that are over end, the table answers, the request   *)
(* is counted, and an address that makes too many is banned.               *)

\* Faulty: the bans that are over are forgotten but their entries stay.
UnbanKept(t) == [table |-> t, banned |-> SelectSeq(banned, LAMBDA b : now < b.until)]

\* The table without the entries of the first n bans.
EraseFirst(t, n) ==
    LET erased[i \in 0..n] == IF i = 0 THEN t ELSE erase(erased[i - 1], banned[i].addr)
    IN erased[n]

\* unban: from the front, up to the first that is not over.
Unban(t) ==
    LET over == {i \in 0..Len(banned) : \A j \in 1..i : banned[j].until <= now}
        n == CHOOSE i \in over : \A j \in over : j <= i
    IN [table |-> EraseFirst(t, n), banned |-> SubSeq(banned, n + 1, Len(banned))]

Unbanned ==
    IF RequestsPerSec # 0 /\ banSec # 0 THEN Unban(table) ELSE [table |-> table, banned |-> banned]

\* Of the times h those that count for RateBound: from the first one on that is not over.
Recent(h) ==
    LET recent == {i \in DOMAIN h : now - h[i] < Wnd}
    IN IF recent = {} THEN <<>> ELSE SubSeq(h, Least(recent), Len(h))

\* A ban of this address holds, for the time of a window or more.
OwnRule(addr) == \E i \in DOMAIN rules : rules[i].kept /\ rules[i].prefix = addr
KeptOut(addr) == ~OwnRule(addr) /\ (banSec = 0 \/ banSec >= WindowSec)

\* The recent times of all addresses, and now for this one.
More(h, addr) == [a \in Clients |-> IF a = addr THEN Append(Recent(h[a]), now) ELSE Recent(h[a])]

\* inc is what counting the request gives; ban makes an entry and notes when it ends.
Count(addr, u, inc) ==
    /\ ipwnd' = inc.ipwnd
    /\ IF inc.triggered
       THEN /\ table' = insert(u.table, addr, FALSE)
            /\ banned' = IF banSec = 0 THEN u.banned
                         ELSE Append(u.banned, [until |-> now + banSec * Second, addr |-> addr])
            /\ tripped' = [tripped EXCEPT ![addr] = now]
            /\ hits' = [hits EXCEPT ![addr] = <<>>]
            /\ entered' = [entered EXCEPT ![addr] = Recent(@)]
       ELSE /\ table' = u.table /\ banned' = u.banned
            /\ hits' = More(hits, addr)
            /\ entered' = [a \in Clients |-> IF KeptOut(a) THEN More(entered, addr)[a] ELSE <<>>]
            /\ UNCHANGED tripped

\* u: the table and the bans after unban.
Admit(addr, u) ==
    /\ Len(u.banned) < MaxBans
    /\ IF find(u.table, addr).allow THEN Count(addr, u, Inc(addr))
       ELSE /\ table' = u.table /\ banned' = u.banned
            /\ UNCHANGED <<ipwnd, hits, entered, tripped>>

processIp(addr) ==
    /\ stage = "serving"
    /\ Admit(addr, Unbanned)
    /\ UNCHANGED <<stage, default, banSec, now, rules>>

Tick ==
    /\ stage = "serving"
    /\ now < MaxTime
    /\ now' = now + 1
    /\ UNCHANGED <<stage, table, default, ipwnd, banned, banSec, rules, hits, entered, tripped>>

BlackListNext ==
    \/ \E r \in Lines : ReadRule(r.prefix, r.allow)
    \/ \E allow \in BOOLEAN : ReadAll(allow)
    \/ ReadEnd
    \/ ReadInvalid
    \/ \E a \in Clients : processIp(a)
    \/ Tick

BlackListSpec == BlackListInit /\ [][BlackListNext]_blackListVars

----------------------------------------------------------------------------

\* The rules of the file that went into the table and cover an address; the first of them is
\* to decide.
Covering(addr) == {i \in DOMAIN rules : rules[i].kept /\ Begins(rules[i].prefix, addr)}
RuledAllow(addr) ==
    IF Covering(addr) = {} THEN default
    ELSE rules[CHOOSE i \in Covering(addr) : \A j \in Covering(addr) : i <= j].allow

Addresses == [1..AddrLen -> {0, 1}]
Tripped(addr) == addr \in Clients /\ tripped[addr] # Never
BanRuns(addr) == Tripped(addr) /\ (banSec = 0 \/ now < tripped[addr] + banSec * Second)

\* A rule of the file is skipped exactly if an earlier one that was not covers its network
\* address.  So a rule that is wider than an earlier one may be skipped, though the earlier
\* one does not cover all its addresses: the default, or a later rule, decides on the others.
SkippedForEarlier ==
    \A i \in DOMAIN rules :
        rules[i].kept <=> ~\E j \in Covering(Network(rules[i].prefix)) : j < i

\* Which rules of a file take part, and which of them decides on an address: the longest
\* match in the tree is the first rule that covers the address and was not skipped, through
\* every split and merge that the rules and the bans of other addresses make (addRule's
\* find; insert, erase and longest_match of the radix tree).  This is about files that do
\* not break the tree.
FirstMatch ==
    /\ SkippedForEarlier
    /\ \A a \in Addresses : ~Tripped(a) => find(table, a).allow = RuledAllow(a)

\* processIp refuses an address that made too many requests until ban-ip-sec are over, for
\* ever if that is 0, and after that the rules decide again.  Not so for an address with a
\* rule of its own: ban does not overwrite the entry, and unban erases it.
BanExact ==
    \A a \in Clients :
        Tripped(a) /\ ~OwnRule(a) =>
            find(Unbanned.table, a).allow = (RuledAllow(a) /\ ~BanRuns(a))

\* However its requests fall on the windows, and whichever windows the requests of others
\* remove, an address is let in less than 2 * Limit times in a time of WindowSec, provided
\* that a ban keeps it out for that time: it has no rule of its own and ban-ip-sec is not
\* less than WindowSec, or 0.  To trip erases the window, so with a shorter ban, or none that
\* holds, an address may be let in more often, but less than 2 * Limit times since it last
\* tripped (IpMap::inc, removeItAndNeighbor, ban).
RateBound ==
    RequestsPerSec # 0 =>
        \A a \in Clients :
            /\ Len(Recent(hits[a])) < 2 * Limit
            /\ KeptOut(a) => Len(Recent(entered[a])) < 2 * Limit
=============================================================================
