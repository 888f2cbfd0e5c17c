------------------------------ MODULE MCInputs ------------------------------
(***************************************************************************)
(* Small instances of the parts that take in something from outside: a     *)
(* frame, a DNS message, a payload, a list file, the identity file.  They  *)
(* share no state; a run takes one of them, chosen in its initial state,   *)
(* and leaves the others alone.                                            *)
(***************************************************************************)
EXTENDS PacketParser, DnsName, PayloadScan, Blacklist, AgentIdentity

CONSTANT w1

VARIABLE focus

vars == <<focus, frameVars, dnsVars, textVars, listVars, identityVars>>

\* Three addresses share bits of the filter, so that 3 is taken for listed
\* when 1 and 2 are.
MCBloomBits ==
    [ip \in Addresses |-> CASE ip = 1 -> {"a", "b"} [] ip = 2 -> {"b", "c"}
                            [] ip = 3 -> {"a", "c"} [] OTHER -> {"d"}]

Line(kind, ip, prefix) == [kind |-> kind, ip |-> ip, prefix |-> prefix]
MCIpLines ==
    {Line("skip", 0, 0), Line("ip", 1, 0), Line("ip", 2, 0), Line("cidr", 5, 3),
     Line("cidr", 3, 2), Line("cidr", 6, 1), Line("cidr", 7, 0)}

MCCanonical ==
    [d \in {"Bad.example.", "bad.example", "other.example"} |->
        IF d = "other.example" THEN d ELSE "bad.example"]

\* In "abc" the place of the second signature overlaps that of the first.
MCSignatures == [name \in {"x", "y"} |-> IF name = "x" THEN <<"a", "b">> ELSE <<"b", "c">>]
MCFolded == [c \in {"a", "A", "b", "c"} |-> IF c = "A" THEN "a" ELSE c]

AnyFrame == CHOOSE f \in Frames : TRUE

Others(part) ==
    /\ part # "frame" => frame = AnyFrame /\ reads = {} /\ meta = NoMeta
    /\ part # "dns" => /\ payload = <<>> /\ question = FALSE /\ pos = 0
                       /\ labels = <<>> /\ walk = "none"
    /\ part # "text" => /\ text = <<>> /\ resume = 1 /\ found = {} /\ seen = {}
                        /\ signals = <<>> /\ scanning = FALSE
    /\ part # "list" => /\ ip_bloom = {} /\ ip_exact = {} /\ ip_cidrs = {} /\ domains = {}
                        /\ ipList = <<>> /\ loadPc = "line" /\ loaded = {} /\ named = {}
                        /\ check = [w \in Checkers |-> NotChecking]
    /\ part # "identity" => IdentityInit

Init ==
    \/ focus = "frame" /\ FrameInit /\ Others("frame")
    \/ focus = "dns" /\ DnsInit /\ Others("dns")
    \/ focus = "text" /\ TextInit /\ Others("text")
    \/ focus = "list" /\ ListInit /\ Others("list")
    \/ focus = "identity" /\ IdentityInit /\ Others("identity")

Next ==
    /\ \/ /\ focus = "frame" /\ FrameNext
          /\ UNCHANGED <<dnsVars, textVars, listVars, identityVars>>
       \/ /\ focus = "dns" /\ DnsNext
          /\ UNCHANGED <<frameVars, textVars, listVars, identityVars>>
       \/ /\ focus = "text" /\ TextNext
          /\ UNCHANGED <<frameVars, dnsVars, listVars, identityVars>>
       \/ /\ focus = "list" /\ ListNext
          /\ UNCHANGED <<frameVars, dnsVars, textVars, identityVars>>
       \/ /\ focus = "identity" /\ IdentityNext
          /\ UNCHANGED <<frameVars, dnsVars, textVars, listVars>>
    /\ UNCHANGED focus

Spec == Init /\ [][Next]_vars
=============================================================================
