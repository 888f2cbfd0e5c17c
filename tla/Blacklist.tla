------------------------------ MODULE Blacklist ------------------------------
(***************************************************************************)
(* The blacklist (src/ids/blacklist.rs).  A loader goes through the lines  *)
(* of a list of addresses and then of a list of domains, while workers     *)
(* check addresses: the Bloom filter, the exact set, the ranges and the    *)
(* domains each have a lock of their own.  The methods are written for a   *)
(* loader in the background (blacklist.rs:112); main loads the lists       *)
(* before it starts the workers, which is one of the orders here.          *)
(* Addresses have AddrBits bits instead of 32.  A line of the address list *)
(* is a comment, an address, or a range with a prefix length; what parses  *)
(* as neither is skipped like a comment.                                   *)
(***************************************************************************)
EXTENDS Integers, Sequences

CONSTANTS
    AddrBits,
    IpLines,         \* the lines the list is made of
    MaxLines,        \* bound: lines of the list
    BloomBits,       \* BloomBits[ip]: the bits of ip in the filter
    Checkers,        \* workers in check_ip
    Domains,         \* spellings of domains
    Canonical        \* without trailing dots, in lower case

\* What a bit of an address counts for.
Pow2[n \in 0..AddrBits] == IF n = 0 THEN 1 ELSE 2 * Pow2[n - 1]

Addresses == 0..(Pow2[AddrBits] - 1)

ASSUME BlacklistAssumption ==
    /\ AddrBits \in Nat \ {0}
    /\ MaxLines \in Nat
    /\ IpLines \subseteq [kind: {"skip", "ip", "cidr"}, ip: Addresses, prefix: Nat]
    /\ DOMAIN BloomBits = Addresses
    /\ DOMAIN Canonical = Domains

VARIABLES
    ip_bloom, ip_exact, ip_cidrs, domains,
    ipList,       \* the lines still to load, the one in progress first
    loadPc,       \* "line", or "exact" between the two locks of add_ip
    loaded,       \* lines the loader is done with
    named,        \* domains the loader is done with, as they are spelled
    check         \* check[w]: the address and the next step of a check_ip

listVars == <<ip_bloom, ip_exact, ip_cidrs, domains, ipList, loadPc, loaded, named, check>>

NotChecking == [ip |-> 0, pc |-> "outside", before |-> {}]

ListInit ==
    /\ ip_bloom = {} /\ ip_exact = {} /\ ip_cidrs = {} /\ domains = {}
    /\ ipList \in UNION {[1..n -> IpLines] : n \in 0..MaxLines}
    /\ loadPc = "line"
    /\ loaded = {} /\ named = {}
    /\ check = [w \in Checkers |-> NotChecking]
-----------------------------------------------------------------------------
\* !0 << (32 - prefix).  The subtraction wraps for a prefix above 32, and the
\* shift takes its amount modulo 32.
MaskShift(prefix) == (AddrBits - prefix) % AddrBits

\* x & mask: the bits below the shift are cleared, or all of them.
Masked(x, prefix) == IF prefix = 0 THEN 0 ELSE x - (x % Pow2[MaskShift(prefix)])

from_cidr(line) == [base |-> Masked(line.ip, line.prefix), prefix |-> line.prefix]
Covers(cidr, ip) == Masked(ip, cidr.prefix) = cidr.base

\* Done with the line at the head.
NextLine ==
    /\ ipList' = Tail(ipList)
    /\ loaded' = loaded \cup {Head(ipList)}
    /\ loadPc' = "line"

LoadSkip ==
    /\ ipList # <<>> /\ Head(ipList).kind = "skip"
    /\ NextLine
    /\ UNCHANGED <<ip_bloom, ip_exact, ip_cidrs, domains, named, check>>

AddCidr ==
    /\ ipList # <<>> /\ Head(ipList).kind = "cidr"
    /\ ip_cidrs' = ip_cidrs \cup {from_cidr(Head(ipList))}
    /\ NextLine
    /\ UNCHANGED <<ip_bloom, ip_exact, domains, named, check>>

AddIpBloom ==
    /\ ipList # <<>> /\ Head(ipList).kind = "ip" /\ loadPc = "line"
    /\ ip_bloom' = ip_bloom \cup BloomBits[Head(ipList).ip]
    /\ loadPc' = "exact"
    /\ UNCHANGED <<ip_exact, ip_cidrs, domains, ipList, loaded, named, check>>

AddIpExact ==
    /\ loadPc = "exact"
    /\ ip_exact' = ip_exact \cup {Head(ipList).ip}
    /\ NextLine
    /\ UNCHANGED <<ip_bloom, ip_cidrs, domains, named, check>>

AddDomain(d) ==
    /\ ipList = <<>>
    /\ domains' = domains \cup {Canonical[d]}
    /\ named' = named \cup {d}
    /\ UNCHANGED <<ip_bloom, ip_exact, ip_cidrs, ipList, loadPc, loaded, check>>

check_domain(d) == Canonical[d] \in domains
-----------------------------------------------------------------------------
Goes(w, pc) ==
    /\ check' = [check EXCEPT ![w].pc = pc]
    /\ UNCHANGED <<ip_bloom, ip_exact, ip_cidrs, domains, ipList, loadPc, loaded, named>>

\* Mutant: an address the filter does not know is in no range either.
CheckBloomOnly(w, ip) ==
    /\ check[w].pc = "outside"
    /\ check' = [check EXCEPT ![w] =
           [ip |-> ip, before |-> loaded,
            pc |-> IF BloomBits[ip] \subseteq ip_bloom THEN "exact" ELSE "none"]]
    /\ UNCHANGED <<ip_bloom, ip_exact, ip_cidrs, domains, ipList, loadPc, loaded, named>>
\* check_ip begins with the filter; `before` is what was loaded by then.
CheckBloom(w, ip) ==
    /\ check[w].pc = "outside"
    /\ check' = [check EXCEPT ![w] =
           [ip |-> ip, before |-> loaded,
            pc |-> IF BloomBits[ip] \subseteq ip_bloom THEN "exact" ELSE "cidrs"]]
    /\ UNCHANGED <<ip_bloom, ip_exact, ip_cidrs, domains, ipList, loadPc, loaded, named>>

CheckExact(w) ==
    /\ check[w].pc = "exact"
    /\ Goes(w, IF check[w].ip \in ip_exact THEN "signal" ELSE "cidrs")

CheckCidrs(w) ==
    /\ check[w].pc = "cidrs"
    /\ Goes(w, IF \E c \in ip_cidrs : Covers(c, check[w].ip) THEN "signal" ELSE "none")

CheckDone(w) ==
    /\ check[w].pc \in {"signal", "none"}
    /\ check' = [check EXCEPT ![w] = NotChecking]
    /\ UNCHANGED <<ip_bloom, ip_exact, ip_cidrs, domains, ipList, loadPc, loaded, named>>

ListNext ==
    \/ LoadSkip \/ AddCidr \/ AddIpBloom \/ AddIpExact
    \/ \E d \in Domains : AddDomain(d)
    \/ \E w \in Checkers :
          \/ \E ip \in Addresses : CheckBloom(w, ip)
          \/ CheckExact(w) \/ CheckCidrs(w) \/ CheckDone(w)

ListSpec == ListInit /\ [][ListNext]_listVars
-----------------------------------------------------------------------------
\* The addresses a line stands for: those that agree with it in the first
\* prefix bits.  A prefix that is too long stands for none.
Denotes(line, ip) ==
    \/ line.kind = "ip" /\ ip = line.ip
    \/ /\ line.kind = "cidr" /\ line.prefix <= AddrBits
       /\ \A bit \in (AddrBits - line.prefix)..(AddrBits - 1) :
             (ip \div Pow2[bit]) % 2 = (line.ip \div Pow2[bit]) % 2

\* Nothing that was loaded before the check is missed, nothing else found.
MissesNothing(c) == c.pc = "none" => ~\E line \in c.before : Denotes(line, c.ip)
FindsNoOther(c) == c.pc = "signal" => \E line \in loaded : Denotes(line, c.ip)

(***************************************************************************)
(* An address of a line that was loaded before check_ip began is           *)
(* signalled, whatever the loader is adding meanwhile: the filter never    *)
(* hides it, and no mask loses it (blacklist.rs:23-36, 73-95, 114-117).    *)
(* One that no line stands for is not signalled: the exact set puts right  *)
(* what the filter takes for listed, and a range ends where its prefix     *)
(* says.  A domain is found under every spelling of it (100-102, 125-130). *)
(***************************************************************************)
CheckAgreesWithList ==
    /\ \A w \in Checkers : MissesNothing(check[w]) /\ FindsNoOther(check[w])
    /\ \A d \in named, e \in Domains : Canonical[e] = Canonical[d] => check_domain(e)
=============================================================================
