----------------------------- MODULE HostMatch ------------------------------
(***************************************************************************)
(* How a Host header is matched against the `host` of a route              *)
(* (HostMatch::parse and find_group in src/src/backends.rs), and what the  *)
(* documentation says of it.  A name is the sequence of its labels, so     *)
(* "*.x" is <<"*", "x">>; a header is a name and what follows its first    *)
(* colon.                                                                  *)
(***************************************************************************)
EXTENDS Naturals, Sequences

CONSTANTS
    Label,          \* the parts of a name between its dots
    Empty,          \* the empty label
    Star,           \* the label "*"
    Starred,        \* the labels that contain a '*'
    LowerCase       \* to_ascii_lowercase of each label

ASSUME LabelAssumption == /\ {Empty, Star} \subseteq Label
                          /\ Star \in Starred /\ Starred \subseteq Label
                          /\ LowerCase \in [Label -> Label]

Lower(name) == [k \in DOMAIN name |-> LowerCase[name[k]]]
HasStar(name) == \E k \in DOMAIN name : name[k] \in Starred

\* A leading "*." makes a wildcard of the rest, anything else is exact.
IsWildcard(p) == Len(p) > 1 /\ p[1] = Star
Rejected(p) == IF IsWildcard(p) THEN Tail(p) = <<Empty>> \/ HasStar(Tail(p))
                                ELSE HasStar(p)
HostMatchExact(p) == ~IsWildcard(p) /\ ~Rejected(p)
HostMatchWildcard(p) == IsWildcard(p) /\ ~Rejected(p)
Suffix(p) == Lower(Tail(p))     \* the leading dot is left out

\* The part of a header before its first colon, lowercased.
Fold(h) == Lower(h.name)

\* ends_with the suffix and the dot before it
EndsWithApex(name, suffix) ==   \* mutant of EndsWith
    /\ Len(name) >= Len(suffix)
    /\ \A k \in DOMAIN suffix : name[Len(name) - Len(suffix) + k] = suffix[k]
EndsWith(name, suffix) ==
    /\ Len(name) > Len(suffix)
    /\ \A k \in DOMAIN suffix : name[Len(name) - Len(suffix) + k] = suffix[k]

MatchesExact(h, p) == HostMatchExact(p) /\ Fold(h) = Lower(p)
MatchesWildcard(h, p) == HostMatchWildcard(p) /\ EndsWith(Fold(h), Suffix(p))

-----------------------------------------------------------------------------
(* The documented meaning.  A wildcard covers what a sub-domain of one or  *)
(* more labels makes of it, an exact route its own name, in any case and   *)
(* at any port; exact routes win over wildcards, and among wildcards the   *)
(* longest does (README, host; lb.toml).                                   *)

Covers(p, h) ==
    /\ ~Rejected(p)
    /\ IF IsWildcard(p)
       THEN \E k \in 1 .. Len(h.name) - 1 : Lower(SubSeq(h.name, 1, k) \o Tail(p)) = Lower(h.name)
       ELSE Lower(p) = Lower(h.name)

Beats(p, q) == IF IsWildcard(p) THEN IsWildcard(q) /\ Len(p) > Len(q) ELSE IsWildcard(q)

\* Among the routes P, those a request for h may go to.
Best(h, P) == {p \in P : Covers(p, h) /\ \A q \in P : Covers(q, h) => ~Beats(q, p)}
=============================================================================
