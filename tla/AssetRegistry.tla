----------------------------- MODULE AssetRegistry -----------------------------
(***************************************************************************)
(* The skills (internal/skill/registry.go) or the personas                 *)
(* (internal/persona/registry.go): a map of cards read from markdown files *)
(* at start, changed by the console's handlers under no lock, file first   *)
(* and card second, while a run searches the cards and loads what it found *)
(* for its context.  Go may end the process when it notices the unlocked   *)
(* use of the map: a restart at any time.                                  *)
(*                                                                         *)
(* A skill's id is the name of its directory, which may lie in another's;  *)
(* ids that two roots share are left out.                                  *)
(***************************************************************************)
EXTENDS FiniteSets

CONSTANTS
  Ids,       \* ids of skills or personas
  Texts,     \* contents of their files
  Inside,    \* pairs <<a, b>>: the directory of skill a lies in that of b
  Editors,   \* requests of the console
  Unparsed   \* no card, no file

Torn == "torn"       \* what a failed write leaves in a file
Contents == Texts \cup {Torn, Unparsed}

VARIABLES
  kind,      \* which of the two registries this is
  cards,     \* Registry.cards: the content a card was parsed from
  paths,     \* the files
  editor,    \* what each request does
  spoiled,   \* history: changed by two requests at a time, or by half of one
  planning   \* a run that collects its context

vars == <<kind, cards, paths, editor, spoiled, planning>>

Away == [at |-> "away", id |-> Unparsed, text |-> Unparsed]
NoPlanning == [at |-> "away", found |-> {}, id |-> Unparsed, touched |-> {}]

TypeOK ==
  /\ kind \in {"skills", "personas"}
  /\ cards \in [Ids -> Contents] /\ paths \in [Ids -> Contents]
  /\ editor \in [Editors -> [at : {"away", "write", "parse", "register", "remove", "unregister"},
                             id : Ids \cup {Unparsed}, text : Contents]]
  /\ spoiled \subseteq Ids
  /\ planning \in [at : {"away", "loading", "reading", "failed"}, found : SUBSET Ids,
                   id : Ids \cup {Unparsed}, touched : SUBSET Ids]

(* Discover at start: every file becomes a card.                           *)
Init ==
  /\ kind \in {"skills", "personas"}
  /\ paths \in [Ids -> Texts \cup {Unparsed}]
  /\ cards = paths
  /\ editor = [e \in Editors |-> Away]
  /\ spoiled = {} /\ planning = NoPlanning

-----------------------------------------------------------------------------
(* What a request starts, and what its start does to the history.          *)
InHand(i) == \E e \in Editors : editor[e].id = i

(* The files that go with the directory of a skill, or with a persona.     *)
Tree(i) == {i} \cup (IF kind = "skills" THEN {j \in Ids : <<j, i>> \in Inside} ELSE {})

Touch(gone) == planning' = [planning EXCEPT !.touched = @ \cup (gone \cap planning.found)]

Start(e, i, at, text) ==
  /\ editor[e] = Away
  /\ editor' = [editor EXCEPT ![e] = [at |-> at, id |-> i, text |-> text]]
  /\ spoiled' = IF InHand(i) THEN spoiled \cup {i} ELSE spoiled
  /\ Touch({i})
  /\ UNCHANGED <<kind, cards, paths>>

(* A skill is written over the one of its name, whether created or         *)
(* installed from GitHub; a persona must not have a file yet.              *)
Create(e, i, text) ==
  /\ kind = "personas" => paths[i] = Unparsed
  /\ Start(e, i, "write", text)

(* Update, of personas: the card must be there, its file need not.         *)
Update(e, i, text) ==
  /\ kind = "personas" /\ cards[i] # Unparsed
  /\ Start(e, i, "write", text)

Delete(e, i) ==
  /\ cards[i] # Unparsed
  /\ Start(e, i, "remove", Unparsed)

-----------------------------------------------------------------------------
(* WriteSkillFile, WritePersonaFile; handleInstallSkill                    *)

WriteFile(e) ==
  /\ editor[e].at = "write"
  /\ paths' = [paths EXCEPT ![editor[e].id] = editor[e].text]
  /\ editor' = [editor EXCEPT ![e].at = "parse"]
  /\ UNCHANGED <<kind, cards, spoiled, planning>>

(* The file is truncated before it is written.                             *)
WriteFails(e) ==
  /\ editor[e].at = "write"
  /\ paths' = [paths EXCEPT ![editor[e].id] = Torn]
  /\ spoiled' = spoiled \cup {editor[e].id}
  /\ editor' = [editor EXCEPT ![e] = Away]
  /\ UNCHANGED <<kind, cards, planning>>

(* parseCard reads the file back.                                          *)
ParseCard(e) ==
  /\ editor[e].at = "parse"
  /\ LET text == paths[editor[e].id]
     IN  \/ text # Unparsed /\ editor' = [editor EXCEPT ![e].at = "register", ![e].text = text]
         \/ text = Unparsed /\ editor' = [editor EXCEPT ![e] = Away]
  /\ UNCHANGED <<kind, cards, paths, spoiled, planning>>

(* Faulty: the handler forgets to put the new card in the map.             *)
NotRegistered(e) ==
  /\ editor[e].at = "register"
  /\ editor' = [editor EXCEPT ![e] = Away]
  /\ UNCHANGED <<kind, cards, paths, spoiled, planning>>

(* The card of what was read back enters the map.                          *)
Register(e) ==
  /\ editor[e].at = "register"
  /\ cards' = [cards EXCEPT ![editor[e].id] = editor[e].text]
  /\ editor' = [editor EXCEPT ![e] = Away]
  /\ UNCHANGED <<kind, paths, spoiled, planning>>

-----------------------------------------------------------------------------
(* Delete                                                                  *)

(* os.RemoveAll takes whatever lies in the directory and does not mind     *)
(* when there is nothing; os.Remove does, and the persona's card stays.    *)
RemoveFile(e) ==
  /\ editor[e].at = "remove"
  /\ LET i == editor[e].id
         gone == Tree(i)
     IN  /\ \/ /\ kind = "skills" \/ paths[i] # Unparsed
               /\ paths' = [j \in Ids |-> IF j \in gone THEN Unparsed ELSE paths[j]]
               /\ editor' = [editor EXCEPT ![e].at = "unregister"]
            \/ /\ kind = "personas" /\ paths[i] = Unparsed
               /\ editor' = [editor EXCEPT ![e] = Away]
               /\ UNCHANGED paths
         /\ spoiled' = spoiled \cup (gone \ {i})
         /\ Touch(gone)
  /\ UNCHANGED <<kind, cards>>

Unregister(e) ==
  /\ editor[e].at = "unregister"
  /\ cards' = [cards EXCEPT ![editor[e].id] = Unparsed]
  /\ editor' = [editor EXCEPT ![e] = Away]
  /\ UNCHANGED <<kind, paths, spoiled, planning>>

-----------------------------------------------------------------------------
(* searchSkills, searchPersonas: a search over the cards, then each card   *)
(* it found is looked up again and its file read; one error ends it all.   *)

Search ==
  /\ planning.at \in {"away", "failed"}
  /\ \E found \in SUBSET {i \in Ids : cards[i] # Unparsed} :
       planning' = [NoPlanning EXCEPT !.at = "loading", !.found = found,
                                      !.touched = {i \in found : InHand(i)}]
  /\ UNCHANGED <<kind, cards, paths, editor, spoiled>>

Lookup ==
  /\ planning.at = "loading" /\ planning.found # {}
  /\ \E i \in planning.found :
       \/ cards[i] # Unparsed /\ planning' = [planning EXCEPT !.at = "reading", !.id = i]
       \/ cards[i] = Unparsed /\ planning' = [planning EXCEPT !.at = "failed", !.id = i, !.found = {}, !.touched = @ \cap {i}]
  /\ UNCHANGED <<kind, cards, paths, editor, spoiled>>

ReadSkill ==
  /\ planning.at = "reading"
  /\ \/ /\ paths[planning.id] # Unparsed
        /\ planning' = [planning EXCEPT !.at = "loading", !.found = @ \ {planning.id}, !.id = Unparsed,
                                        !.touched = @ \ {planning.id}]
     \/ /\ paths[planning.id] = Unparsed
        /\ planning' = [planning EXCEPT !.at = "failed", !.found = {}, !.touched = @ \cap {planning.id}]
  /\ UNCHANGED <<kind, cards, paths, editor, spoiled>>

AllLoaded ==
  /\ planning.at = "loading" /\ planning.found = {}
  /\ planning' = NoPlanning
  /\ UNCHANGED <<kind, cards, paths, editor, spoiled>>

Restart ==
  /\ cards' = paths
  /\ editor' = [e \in Editors |-> Away]
  /\ spoiled' = {} /\ planning' = NoPlanning
  /\ UNCHANGED <<kind, paths>>

Next ==
  \/ \E e \in Editors :
       \/ \E i \in Ids : Delete(e, i) \/ \E t \in Texts : Create(e, i, t) \/ Update(e, i, t)
       \/ WriteFile(e) \/ WriteFails(e) \/ ParseCard(e) \/ Register(e)
       \/ RemoveFile(e) \/ Unregister(e)
  \/ Search \/ Lookup \/ ReadSkill \/ AllLoaded
  \/ Restart

Spec == Init /\ [][Next]_vars

-----------------------------------------------------------------------------
(* What no request is changing, and no two changed at a time or one left   *)
(* half changed, is served as it is on disk: the registry knows what a     *)
(* restart would find.                                                     *)
CardsMatchFiles == \A i \in Ids \ spoiled : ~ InHand(i) => cards[i] = paths[i]

(* A planning does not fail on an asset that nobody touched while it ran   *)
(* and nobody had spoiled.                                                 *)
FailsForAReason == planning.at = "failed" => planning.id \in planning.touched \cup spoiled

(* The console's changes to skills and personas, made file first and card  *)
(* second without a lock, leave registry and disk agreeing and take no     *)
(* planning down, as long as nobody changes the same asset at the same     *)
(* time, no write fails and no skill lies in the directory of a deleted    *)
(* one.                                                                    *)
RegistryServesFiles == CardsMatchFiles /\ FailsForAReason
=============================================================================
