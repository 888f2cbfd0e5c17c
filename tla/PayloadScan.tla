----------------------------- MODULE PayloadScan -----------------------------
(***************************************************************************)
(* The payload scanner (scan_all in src/ids/payload.rs).  The automaton is *)
(* a library's: built with the default settings it reports, from where the *)
(* last match ended, the match that ends first, and it folds the case of   *)
(* ASCII letters.  A signature is a name and a pattern.                    *)
(***************************************************************************)
EXTENDS Integers, Sequences

CONSTANTS
    Signatures,      \* name -> pattern
    Letters,
    Folded,          \* Folded[c]: the letter c in lower case
    MaxText          \* bound: bytes of a payload

ASSUME ScanAssumption ==
    /\ DOMAIN Folded = Letters
    /\ MaxText \in Nat
    /\ \A name \in DOMAIN Signatures : Signatures[name] \in Seq(Letters) \ {<<>>}

VARIABLES
    text,
    resume,     \* where find_iter goes on
    found,      \* its matches so far: name, first byte, byte behind the last
    seen,       \* names, of which each gives a signal once
    signals,    \* the names in the order of their signals
    scanning

textVars == <<text, resume, found, seen, signals, scanning>>

Texts == UNION {[1..n -> Letters] : n \in 0..MaxText}

TextInit ==
    /\ text \in Texts
    /\ resume = 1
    /\ found = {} /\ seen = {} /\ signals = <<>>
    /\ scanning = TRUE

\* The places where a signature stands in the text.
Occurrences ==
    {o \in [name: DOMAIN Signatures, start: 1..Len(text), end: 2..(Len(text) + 1)] :
        /\ o.end = o.start + Len(Signatures[o.name])
        /\ \A i \in 1..Len(Signatures[o.name]) :
              Folded[text[o.start + i - 1]] = Folded[Signatures[o.name][i]]}

Ahead == {o \in Occurrences : o.start >= resume}

\* The next match: the one that ends first, the longest of those.
NextMatch(o) ==
    /\ o \in Ahead
    /\ \A other \in Ahead :
          o.end < other.end \/ (o.end = other.end /\ o.start <= other.start)

\* Mutant: a repeated signature is what the loop ends at.
ScanMatchOnce ==
    /\ scanning
    /\ \E o \in Ahead :
          /\ NextMatch(o)
          /\ resume' = IF o.name \in seen THEN Len(text) + 1 ELSE o.end
          /\ found' = found \cup {o}
          /\ seen' = seen \cup {o.name}
          /\ signals' = IF o.name \in seen THEN signals ELSE Append(signals, o.name)
    /\ UNCHANGED <<text, scanning>>
ScanMatch ==
    /\ scanning
    /\ \E o \in Ahead :
          /\ NextMatch(o)
          /\ resume' = o.end
          /\ found' = found \cup {o}
          /\ seen' = seen \cup {o.name}
          /\ signals' = IF o.name \in seen THEN signals ELSE Append(signals, o.name)
    /\ UNCHANGED <<text, scanning>>

ScanEnd ==
    /\ scanning /\ Ahead = {}
    /\ scanning' = FALSE
    /\ UNCHANGED <<text, resume, found, seen, signals>>

TextNext == ScanMatch \/ ScanEnd

TextSpec == TextInit /\ [][TextNext]_textVars
-----------------------------------------------------------------------------
Overlap(o, p) == o.start < p.end /\ p.start < o.end

(***************************************************************************)
(* A signature that stands in the payload, in any case and however often   *)
(* others are repeated, is among the signals, unless each of its places    *)
(* overlaps a match that ends before it; so a payload with a signature     *)
(* never comes out without a signal (payload.rs:60-78).                    *)
(***************************************************************************)
OnlyOverlappedIsMissed ==
    ~scanning => \A o \in Occurrences :
        \/ \E i \in DOMAIN signals : signals[i] = o.name
        \/ \E i \in DOMAIN signals : \E p \in found :
              p.name = signals[i] /\ Overlap(o, p) /\ p.end <= o.end
=============================================================================
