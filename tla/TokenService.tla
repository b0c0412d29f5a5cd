---------------------------- MODULE TokenService ----------------------------
(* What a store of single-use tokens promises, whatever it is built from:   *)
(* a token is issued once, can be used once while it is valid, and is not   *)
(* valid again after a use or a revocation.  A store may give up a token    *)
(* (forfeit): of such a token it promises nothing, of the others all of it. *)
(* A token whose time is over may stay or go, as the store likes.           *)
EXTENDS Naturals

CONSTANTS Tokens, Users, Owner

VARIABLES
    valid,   \* the tokens that can be used
    ever,    \* the tokens issued so far
    spent,   \* the tokens used
    expired, \* the tokens whose time is over
    forfeit  \* the tokens that have been given up

svars == <<valid, ever, spent, expired, forfeit>>

SInit == valid = {} /\ ever = {} /\ spent = {} /\ expired = {} /\ forfeit = {}

\* The tokens that are valid from now on are those of V.
Leaves(V) ==
    \E F \in SUBSET Tokens, E \in SUBSET expired :
       /\ forfeit' = forfeit \cup F
       /\ valid' = ((V \ expired) \cup E) \ forfeit'

Issue(t) ==
    /\ t \notin ever
    /\ ever' = ever \cup {t}
    /\ Leaves(valid \cup {t})
    /\ UNCHANGED <<spent, expired>>

Use(t) ==
    /\ t \in (valid \ spent) \cup forfeit
    /\ spent' = spent \cup {t}
    /\ Leaves(valid \ {t})
    /\ UNCHANGED <<ever, expired>>

RevokeUser(u) ==
    /\ Leaves({t \in valid : Owner[t] # u})
    /\ UNCHANGED <<ever, spent, expired>>

Sweep == Leaves(valid) /\ UNCHANGED <<ever, spent, expired>>

Expire(t) == expired' = expired \cup {t} /\ UNCHANGED <<valid, ever, spent, forfeit>>

SNext ==
    \/ \E t \in Tokens : Issue(t) \/ Use(t) \/ Expire(t)
    \/ \E u \in Users : RevokeUser(u)
    \/ Sweep

Service == SInit /\ [][SNext]_svars
=============================================================================
