---------------------------- MODULE AtomicPlaces ----------------------------
(***************************************************************************)
(* What a directory of places promises that programs fill by renaming      *)
(* finished work into it: a place is empty or holds one whole thing, it is *)
(* filled in one step and only while it is empty, and everything else that *)
(* is ever seen there comes from someone who works in it by hand.          *)
(*                                                                         *)
(* build/agents/pi is such a directory (AgentSetRender), and so is         *)
(* data/skills/<set> (Skills), where a fetch also withdraws what it is     *)
(* about to replace.                                                       *)
(***************************************************************************)
EXTENDS Naturals

CONSTANTS
    Places,
    Whole,      \* the finished things
    Absent,     \* what an empty place holds
    Withdraws   \* whether a program also takes out what it replaces

VARIABLES
    content,      \* per place, what is there
    disturbances  \* how often someone has worked in it by hand

vars == <<content, disturbances>>

Init ==
    /\ content \in [Places -> Whole \cup {Absent}]
    /\ disturbances = 0

Publish(p) ==
    /\ content[p] = Absent
    /\ \E whole \in Whole : content' = [content EXCEPT ![p] = whole]
    /\ UNCHANGED disturbances

Withdraw(p) ==
    /\ Withdraws
    /\ content' = [content EXCEPT ![p] = Absent]
    /\ UNCHANGED disturbances

Disturb(p) ==
    /\ disturbances' = disturbances + 1
    /\ DOMAIN content' = Places
    /\ \A q \in Places \ {p} : content'[q] = content[q]

Next == \E p \in Places : Publish(p) \/ Withdraw(p) \/ Disturb(p)

Spec == Init /\ [][Next]_vars

=============================================================================
