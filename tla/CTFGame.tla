------------------------------- MODULE CTFGame -------------------------------
(***************************************************************************)
(* What the flag game promises, without entities, slots or thinks: where   *)
(* each flag is, who has it, and how a team scores.  CTFFlags implements   *)
(* this specification (see CTFFlagsRefinement there).                      *)
(***************************************************************************)
EXTENDS Naturals

CONSTANTS Players, NoPlayer

VARIABLES
    place,    \* where a flag is: at its base, carried or dropped
    carrier,  \* who carries it
    score,    \* the captures of a team since the game last started over
    over      \* the intermission has begun

gameVars == <<place, carrier, score, over>>

GameTeams == {1, 2}
Opponent(t) == 3 - t

AtHome == 1
InHands == 2
OnGround == 3

GameInit ==
    /\ place = [f \in GameTeams |-> AtHome]
    /\ carrier = [f \in GameTeams |-> NoPlayer]
    /\ score = [t \in GameTeams |-> 0]
    /\ over = FALSE

(* Flags nobody carries can be taken; while the game runs nobody takes a   *)
(* second one.                                                             *)
Take(f, p) ==
    /\ place[f] # InHands
    /\ ~over => \A g \in GameTeams : carrier[g] # p
    /\ place' = [place EXCEPT ![f] = InHands]
    /\ carrier' = [carrier EXCEPT ![f] = p]
    /\ UNCHANGED <<score, over>>

Drop(f) ==
    /\ place[f] = InHands
    /\ place' = [place EXCEPT ![f] = OnGround]
    /\ carrier' = [carrier EXCEPT ![f] = NoPlayer]
    /\ UNCHANGED <<score, over>>

Return(f) ==
    /\ place[f] = OnGround
    /\ place' = [place EXCEPT ![f] = AtHome]
    /\ UNCHANGED <<carrier, score, over>>

(* A team scores when its opponent's flag is brought to its own flag.      *)
Capture(f) ==
    /\ place[f] = InHands
    /\ place[Opponent(f)] = AtHome
    /\ place' = [place EXCEPT ![f] = AtHome]
    /\ carrier' = [carrier EXCEPT ![f] = NoPlayer]
    /\ score' = [score EXCEPT ![Opponent(f)] = @ + 1]
    /\ UNCHANGED over

(* The game starts over: no flag stays in anyone's hands.  In the          *)
(* intermission a client that has gone may keep its flag.                  *)
StartOver ==
    \E S \in SUBSET GameTeams :
        /\ \A f \in S : place[f] = InHands
        /\ ~over => \A f \in GameTeams \ S : place[f] # InHands
        /\ place' = [f \in GameTeams |-> IF f \in S THEN AtHome ELSE place[f]]
        /\ carrier' = [f \in GameTeams |-> IF f \in S THEN NoPlayer ELSE carrier[f]]
        /\ score' = [t \in GameTeams |-> 0]
        /\ UNCHANGED over

(* Only in the intermission does a flag go home from someone's hands       *)
(* without a capture.                                                      *)
Abandon(f) ==
    /\ over
    /\ place[f] = InHands
    /\ place' = [place EXCEPT ![f] = AtHome]
    /\ carrier' = [carrier EXCEPT ![f] = NoPlayer]
    /\ UNCHANGED <<score, over>>

Finish ==
    /\ ~over
    /\ over' = TRUE
    /\ UNCHANGED <<place, carrier, score>>

GameNext ==
    \/ \E f \in GameTeams, p \in Players : Take(f, p)
    \/ \E f \in GameTeams : Drop(f) \/ Return(f) \/ Capture(f) \/ Abandon(f)
    \/ StartOver
    \/ Finish

GameSpec == GameInit /\ [][GameNext]_gameVars
=============================================================================
