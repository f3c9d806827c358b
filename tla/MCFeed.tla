------------------------------- MODULE MCFeed -------------------------------
(***************************************************************************)
(* Two pages of RoomFeed, of which a behaviour has one, chosen at its      *)
(* start: the host's, with the bounds of the configuration, and a guest's  *)
(* that has two auctions to choose from and asks for no history.           *)
(***************************************************************************)
EXTENDS RoomFeed

VARIABLE viewer

guest == INSTANCE RoomFeed WITH MaxAuctions <- 2, Slots <- {}, IsHost <- FALSE

mcVars == <<vars, viewer>>

MCInit ==
    \/ viewer = "host" /\ Init
    \/ viewer = "guest" /\ guest!Init

MCNext ==
    /\ \/ viewer = "host" /\ Next
       \/ viewer = "guest" /\ guest!Next
    /\ UNCHANGED viewer

Either(hosts, guests) ==
    \/ viewer = "host" /\ hosts
    \/ viewer = "guest" /\ guests

\* The fairness of FairSpec, for both.
MCSpec ==
    /\ MCInit
    /\ [][MCNext]_mcVars
    /\ WF_vars(Either(AcceptBid \/ RefuseBid, guest!AcceptBid \/ guest!RefuseBid))
    /\ WF_vars(BroadcastBid)
    /\ WF_vars(Either(Delivery, guest!Delivery))

=============================================================================
