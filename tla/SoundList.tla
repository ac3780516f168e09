----------------------------- MODULE SoundList -----------------------------
(***************************************************************************)
(* The world's list of sounds that monsters listen to (soundent.cpp): a    *)
(* fixed pool threaded by two linked lists, of active and of free sounds.  *)
(* The first sounds of the pool belong to the clients and never expire.    *)
(*                                                                         *)
(* The server's main thread runs every operation as a whole.  Left out:    *)
(* what a sound is like (its type, place and volume), and the clock: a     *)
(* sound expires some time after it was inserted.                          *)
(***************************************************************************)
EXTENDS Integers

CONSTANTS
    MAX_WORLD_SOUNDS,
    maxClients         \* gpGlobals->maxClients

ASSUME PoolAssumption == /\ MAX_WORLD_SOUNDS \in Nat \ {0}
                         /\ maxClients \in 1..MAX_WORLD_SOUNDS

SOUNDLIST_EMPTY == -1
Sounds == 0..(MAX_WORLD_SOUNDS - 1)
ClientSounds == 0..(maxClients - 1)   \* ClientSoundIndex of each client
Links == Sounds \cup {SOUNDLIST_EMPTY}

(* The links of the pool and the heads of the two lists.                   *)
Pools == [m_iNext : [Sounds -> Links], m_iFreeSound : Links, m_iActiveSound : Links]

VARIABLES
    lists,    \* the links of the pool and the heads of the lists
    expires   \* m_flExpireTime: "never", "later" or "now" (or earlier)

vars == <<lists, expires>>

TypeOK ==
    /\ lists \in Pools
    /\ expires \in [Sounds -> {"never", "later", "now"}]

(* What is found from "first" on, as Think and CBaseMonster::Listen walk: *)
(* a list that ends is done within this many steps.                        *)
ListFrom(l, first) ==
    LET After(s) == IF s = SOUNDLIST_EMPTY THEN SOUNDLIST_EMPTY ELSE l.m_iNext[s]
        nth[k \in 0..MAX_WORLD_SOUNDS] == IF k = 0 THEN first ELSE After(nth[k - 1])
    IN  nth

ActiveList(l) == ListFrom(l, l.m_iActiveSound)
FreeList(l) == ListFrom(l, l.m_iFreeSound)

SoundsOf(list) == {list[k] : k \in 0..MAX_WORLD_SOUNDS} \ {SOUNDLIST_EMPTY}
Ends(list) == list[MAX_WORLD_SOUNDS] = SOUNDLIST_EMPTY

-----------------------------------------------------------------------------
(* The list operations.                                                    *)

(* Mutant: the free sounds are taken to be next to each other.             *)
IAllocSoundInOrder(l) ==
    IF l.m_iFreeSound = SOUNDLIST_EMPTY THEN l
    ELSE [m_iFreeSound |-> l.m_iFreeSound + 1,
          m_iNext |-> [l.m_iNext EXCEPT ![l.m_iFreeSound] = l.m_iActiveSound],
          m_iActiveSound |-> l.m_iFreeSound]

(* The first free sound becomes the first active one.                      *)
IAllocSound(l) ==
    IF l.m_iFreeSound = SOUNDLIST_EMPTY THEN l
    ELSE [m_iFreeSound |-> l.m_iNext[l.m_iFreeSound],
          m_iNext |-> [l.m_iNext EXCEPT ![l.m_iFreeSound] = l.m_iActiveSound],
          m_iActiveSound |-> l.m_iFreeSound]

(* Mutant: the sound is taken to be the first of the active ones.          *)
FreeSoundAsHead(l, iSound, iPrevious) ==
    [m_iActiveSound |-> l.m_iNext[iSound],
     m_iNext |-> [l.m_iNext EXCEPT ![iSound] = l.m_iFreeSound],
     m_iFreeSound |-> iSound]

(* An active sound, after iPrevious, becomes the first free one.           *)
FreeSound(l, iSound, iPrevious) ==
    IF iPrevious = SOUNDLIST_EMPTY
      THEN [m_iActiveSound |-> l.m_iNext[iSound],
            m_iNext |-> [l.m_iNext EXCEPT ![iSound] = l.m_iFreeSound],
            m_iFreeSound |-> iSound]
      ELSE [m_iActiveSound |-> l.m_iActiveSound,
            m_iNext |-> [l.m_iNext EXCEPT ![iPrevious] = l.m_iNext[iSound],
                                          ![iSound] = l.m_iFreeSound],
            m_iFreeSound |-> iSound]

(* Initialize: all sounds are free, then one is taken for each client.     *)
Cleared ==
    [m_iFreeSound |-> 0,
     m_iActiveSound |-> SOUNDLIST_EMPTY,
     m_iNext |-> [s \in Sounds |-> IF s + 1 \in Sounds THEN s + 1 ELSE SOUNDLIST_EMPTY]]

Init ==
    /\ LET alloc[i \in 0..maxClients] == IF i = 0 THEN Cleared ELSE IAllocSound(alloc[i - 1])
       IN  lists = alloc[maxClients]
    /\ expires = [s \in Sounds |-> IF s \in ClientSounds THEN "never" ELSE "now"]

-----------------------------------------------------------------------------
(* The game.                                                               *)

(* Without a free sound nothing is heard.                                  *)
InsertSound ==
    /\ lists.m_iFreeSound # SOUNDLIST_EMPTY
    /\ lists' = IAllocSound(lists)
    /\ expires' = [expires EXCEPT ![lists.m_iFreeSound] = "later"]

TimePasses(s) ==
    /\ expires[s] = "later"
    /\ expires' = [expires EXCEPT ![s] = "now"]
    /\ UNCHANGED lists

(* What Think's loop changes.                                              *)
Walks == [l : Pools, iPreviousSound : Links, iSound : Links]

(* Mutant: only the sounds before the first that goes on are freed.        *)
VisitWhileExpired == [w \in Walks |->
    IF w.iSound = SOUNDLIST_EMPTY THEN w
    ELSE IF expires[w.iSound] = "now" /\ w.iPreviousSound = SOUNDLIST_EMPTY
      THEN [l |-> FreeSound(w.l, w.iSound, w.iPreviousSound),
            iPreviousSound |-> w.iPreviousSound, iSound |-> w.l.m_iNext[w.iSound]]
      ELSE [l |-> w.l, iPreviousSound |-> w.iSound, iSound |-> w.l.m_iNext[w.iSound]]]

(* Mutant: a freed sound is taken for the previous one.                    *)
VisitAfterFreed == [w \in Walks |->
    IF w.iSound = SOUNDLIST_EMPTY THEN w
    ELSE IF expires[w.iSound] = "now"
      THEN [l |-> FreeSound(w.l, w.iSound, w.iPreviousSound),
            iPreviousSound |-> w.iSound, iSound |-> w.l.m_iNext[w.iSound]]
      ELSE [l |-> w.l, iPreviousSound |-> w.iSound, iSound |-> w.l.m_iNext[w.iSound]]]

(* One round of Think's loop, of which w holds the variables.              *)
Visit == [w \in Walks |->
    IF w.iSound = SOUNDLIST_EMPTY THEN w
    ELSE IF expires[w.iSound] = "now"
      THEN [l |-> FreeSound(w.l, w.iSound, w.iPreviousSound),
            iPreviousSound |-> w.iPreviousSound, iSound |-> w.l.m_iNext[w.iSound]]
      ELSE [l |-> w.l, iPreviousSound |-> w.iSound, iSound |-> w.l.m_iNext[w.iSound]]]

(* The active list is walked; the expired sounds are freed on the way.     *)
Think ==
    /\ LET walk[k \in 0..MAX_WORLD_SOUNDS] ==
               IF k = 0
                 THEN [l |-> lists, iPreviousSound |-> SOUNDLIST_EMPTY,
                       iSound |-> lists.m_iActiveSound]
                 ELSE Visit[walk[k - 1]]
       IN  lists' = walk[MAX_WORLD_SOUNDS].l
    /\ UNCHANGED expires

(* CSound::Reset of a client's sound, when the client dies or leaves.      *)
Reset(iSound) ==
    /\ lists' = [lists EXCEPT !.m_iNext[iSound] = SOUNDLIST_EMPTY]
    /\ UNCHANGED expires

-----------------------------------------------------------------------------
Next ==
    \/ InsertSound
    \/ \E s \in Sounds : TimePasses(s)
    \/ Think
    \/ \E s \in ClientSounds : Reset(s)

Spec == Init /\ [][Next]_vars

(* The engine runs the think every 0.3 seconds.                            *)
FairSpec == Spec /\ WF_vars(Think)
-----------------------------------------------------------------------------
(* The lists end and share no sound, no client's sound is ever free, so    *)
(* that InsertSound would give it to something else (FreeSound's "TAKE     *)
(* CARE to only call this function for sounds in the Active list"), and    *)
(* the pool does not shrink: every sound that is no client's is in one of  *)
(* the lists, though Reset cuts the active list in two.                    *)
PoolPartitioned ==
    LET active == ActiveList(lists)
        free == FreeList(lists)
    IN  /\ Ends(active) /\ Ends(free)
        /\ SoundsOf(active) \cap SoundsOf(free) = {}
        /\ SoundsOf(free) \cap ClientSounds = {}
        /\ Sounds \ ClientSounds \subseteq SoundsOf(active) \cup SoundsOf(free)

(* Every expired sound becomes free again (CSoundEnt::Think).              *)
ExpiredSoundsFreed ==
    \A s \in Sounds \ ClientSounds : expires[s] = "now" ~> s \in SoundsOf(FreeList(lists))
=============================================================================
