------------------------- MODULE OrganizationMemory -------------------------
(***************************************************************************)
(* The organisation's long-term memory: an index of the records its        *)
(* missions hold, brought up to date by synchronisation, and the           *)
(* supersession of its items by reviewers.                                 *)
(*                                                                         *)
(* A synchronisation reads every document once, then looks an item up for  *)
(* each record, in order, writes it with the next query and commits        *)
(* at the end.  Statements of different transactions interleave, a row     *)
(* written is locked until the commit, and an update writes the columns    *)
(* that differ from what was loaded, as the object-relational mapper does. *)
(***************************************************************************)
EXTENDS Naturals, Sequences

CONSTANTS
    Sources,        \* missions
    Names,          \* records of a mission
    Order,          \* the items' keys, missions by age, records as documented
    Syncs,          \* synchronisations under way at once
    Curators,       \* requests of people who supersede items or register assets
    Hashes,         \* contents of evidence assets
    LastRevision,   \* of a document
    MaxSuccessors   \* items written by reviewers

ItemKeys == Sources \X Names

ASSUME MemoryAssumption ==
    /\ Order \in Seq(ItemKeys)
    /\ LastRevision \in Nat /\ MaxSuccessors \in Nat
    /\ "review" \notin Sources

VARIABLES
    story,      \* of a mission: its document at every revision
    items,      \* the index: identity -> item
    links,      \* pairs of keys
    assets,     \* hashes registered
    sync,       \* of a synchronisation: see Asleep
    work,       \* of a curator's request: what it has read
    overlapped  \* have two synchronisations ever run at once (history)

memoryVars == <<story, items, links, assets, sync, work, overlapped>>

\* The revision a record was last written in, 0 if it is not there; and which
\* keys it is related to, by a relation or by inheritance.
NewDocument == [texts |-> [n \in Names |-> 0], ties |-> {}]

Present(document) == { n \in Names : document.texts[n] # 0 }

Successor(k) == <<"review", k>>
Successors == { Successor(k) : k \in 1 .. MaxSuccessors }

Item(text, revision, state, over) ==
    [text |-> text, revision |-> revision, state |-> state, over |-> over]

NoItem == Item(0, 0, "none", <<>>)

Restrained(f, keys) == [k \in keys |-> f[k]]
With(f, k, v) == [x \in DOMAIN f \cup {k} |-> IF x = k THEN v ELSE f[x]]

\* No synchronisation: nothing read, nothing written, nothing loaded.  What
\* is left to do are places of Order.
Asleep == [at |-> "idle", revision |-> [m \in Sources |-> 0], todo |-> {},
           loaded |-> NoItem, wrote |-> Restrained(<<>>, {}), joins |-> {}]

Unoccupied == [at |-> "idle", of |-> <<>>]

MemoryInit ==
    /\ story = [m \in Sources |-> <<NewDocument>>]
    /\ items = Restrained(<<>>, {})
    /\ links = {} /\ assets = {}
    /\ sync = [s \in Syncs |-> Asleep]
    /\ work = [c \in Curators |-> Unoccupied]
    /\ overlapped = FALSE

Latest(m) == story[m][Len(story[m])]

\* A mission's document is saved: a record is written, removed or related.
Save(m, document) ==
    /\ Len(story[m]) < LastRevision
    /\ story' = [story EXCEPT ![m] = Append(@, document)]
    /\ UNCHANGED <<items, links, assets, sync, work, overlapped>>

WriteRecord(m, n) ==
    Save(m, [Latest(m) EXCEPT !.texts[n] = Len(story[m]) + 1])

RemoveRecord(m, n) ==
    /\ n \in Present(Latest(m))
    /\ Save(m, [texts |-> [Latest(m).texts EXCEPT ![n] = 0],
                ties |-> { t \in Latest(m).ties : n # t[1] /\ <<m, n>> # t[2] }])

Relate(m, n, key) ==
    /\ n \in Present(Latest(m))
    /\ key[2] \in Present(Latest(key[1]))
    /\ key # <<m, n>>
    /\ Save(m, [Latest(m) EXCEPT !.ties = @ \cup {<<n, key>>}])

\* The document a synchronisation has read of a mission.
ReadMission(s, m) == story[m][sync[s].revision[m]]

\* The query for the missions of the organisation, oldest first.
BeginMemorySync(s) ==
    /\ sync[s] = Asleep
    /\ sync' = [sync EXCEPT ![s] = [Asleep EXCEPT
            !.at = "looking",
            !.revision = [m \in Sources |-> Len(story[m])],
            !.todo = { i \in DOMAIN Order :
                        Order[i][2] \in Present(Latest(Order[i][1])) }]]
    /\ overlapped' = (overlapped \/ \E o \in Syncs : sync[o] # Asleep)
    /\ UNCHANGED <<story, items, links, assets, work>>

\* The next record.
Place(s) == CHOOSE i \in sync[s].todo : \A j \in sync[s].todo : i <= j

\* Its item is queried: one that shows the document's
\* revision is left alone.
Look(s) ==
    LET key == Order[Place(s)]
        found == IF key \in DOMAIN items THEN items[key] ELSE NoItem
        current == found.revision = sync[s].revision[key[1]]
    IN  /\ sync[s].at = "looking" /\ sync[s].todo # {}
        /\ sync' = [sync EXCEPT
                ![s].loaded = found,
                ![s].todo = IF current THEN @ \ {Place(s)} ELSE @,
                ![s].at = IF current THEN "looking" ELSE "writing"]
        /\ UNCHANGED <<story, items, links, assets, work, overlapped>>

\* Rows another synchronisation has written hold it up until it ends.
Unlocked(s, key) == \A o \in Syncs \ {s} : key \notin DOMAIN sync[o].wrote

\* Mutant: a superseded item keeps its wording.
RefreshedUnlessSuperseded(loaded, text, revision) ==
    Item(IF loaded.state = "superseded" THEN loaded.text ELSE text,
         revision, "declared", loaded.over)

\* What the record and its mission say of an item: item.state = record.state.
Refreshed(loaded, text, revision) == Item(text, revision, "declared", loaded.over)

\* The columns that differ from those loaded are written over the row's.
Merged(row, loaded, new) ==
    [c \in DOMAIN row |-> IF new[c] # loaded[c] THEN new[c] ELSE row[c]]

(***************************************************************************)
(* An item is inserted or updated.  An insertion that meets the unique key *)
(* of a committed row fails, which Break covers.                           *)
(***************************************************************************)
Put(s) ==
    LET key == Order[Place(s)]
        loaded == sync[s].loaded
        new == Refreshed(loaded, ReadMission(s, key[1]).texts[key[2]], sync[s].revision[key[1]])
    IN  /\ sync[s].at = "writing"
        /\ Unlocked(s, key)
        /\ loaded = NoItem => key \notin DOMAIN items
        /\ sync' = [sync EXCEPT
                ![s].wrote = With(@, key, IF loaded = NoItem THEN new
                                          ELSE Merged(items[key], loaded, new)),
                ![s].todo = @ \ {Place(s)}, ![s].loaded = NoItem, ![s].at = "looking"]
        /\ UNCHANGED <<story, items, links, assets, work, overlapped>>

\* A tie whose two ends were indexed by this very synchronisation.
Indexed(s) ==
    { j \in ItemKeys \X ItemKeys :
        LET m == j[1][1]  n == j[1][2]
        IN  /\ <<n, j[2]>> \in ReadMission(s, m).ties
            /\ n \in Present(ReadMission(s, m))
            /\ j[2][2] \in Present(ReadMission(s, j[2][1])) }

Join(s) ==
    /\ sync[s].at = "looking" /\ sync[s].todo = {}
    /\ \A o \in Syncs \ {s} : sync[o].joins \cap Indexed(s) = {}
    /\ sync' = [sync EXCEPT ![s].joins = Indexed(s) \ links, ![s].at = "joined"]
    /\ UNCHANGED <<story, items, links, assets, work, overlapped>>

EndSync(s) ==
    /\ sync[s].at = "joined"
    /\ items' = [k \in DOMAIN items \cup DOMAIN sync[s].wrote |->
                    IF k \in DOMAIN sync[s].wrote THEN sync[s].wrote[k] ELSE items[k]]
    /\ links' = links \cup sync[s].joins
    /\ sync' = [sync EXCEPT ![s] = Asleep]
    /\ UNCHANGED <<story, assets, work, overlapped>>

\* A unique key, a deadlock or any other failure rolls everything back.
Break(s) ==
    /\ sync[s] # Asleep
    /\ sync' = [sync EXCEPT ![s] = Asleep]
    /\ UNCHANGED <<story, items, links, assets, work, overlapped>>

\* supersede_memory_item: the item is read and is not superseded.
BeginSupersede(c, id) ==
    /\ work[c] = Unoccupied
    /\ items[id].state # "superseded"
    /\ work' = [work EXCEPT ![c] = [at |-> "superseding", of |-> id]]
    /\ UNCHANGED <<story, items, links, assets, sync, overlapped>>

\* Its state is written, and another item takes its place.
Supersede(c) ==
    /\ work[c].at = "superseding"
    /\ \A o \in Syncs : work[c].of \notin DOMAIN sync[o].wrote
    /\ \E k \in 1 .. MaxSuccessors :
        /\ Successor(k) \notin DOMAIN items
        /\ \A j \in 1 .. k - 1 : Successor(j) \in DOMAIN items
        /\ items' = With([items EXCEPT ![work[c].of].state = "superseded"],
                         Successor(k), Item(0, 0, "active", work[c].of))
        /\ links' = links \cup {<<Successor(k), work[c].of>>}
    /\ work' = [work EXCEPT ![c] = Unoccupied]
    /\ UNCHANGED <<story, assets, sync, overlapped>>

\* register_asset: the hash is looked up; one that is known ends the request.
BeginRegisterAsset(c, hash) ==
    /\ work[c] = Unoccupied
    /\ hash \notin assets
    /\ work' = [work EXCEPT ![c] = [at |-> "registering", of |-> <<hash>>]]
    /\ UNCHANGED <<story, items, links, assets, sync, overlapped>>

\* The unique key stops the second of two requests that register one hash.
RegisterAsset(c) ==
    /\ work[c].at = "registering"
    /\ work[c].of[1] \notin assets
    /\ assets' = assets \cup {work[c].of[1]}
    /\ work' = [work EXCEPT ![c] = Unoccupied]
    /\ UNCHANGED <<story, items, links, sync, overlapped>>

GiveUpCuration(c) ==
    /\ work[c] # Unoccupied
    /\ work' = [work EXCEPT ![c] = Unoccupied]
    /\ UNCHANGED <<story, items, links, assets, sync, overlapped>>

MemoryNext ==
    \/ \E m \in Sources, n \in Names :
        \/ WriteRecord(m, n)
        \/ RemoveRecord(m, n)
        \/ \E k \in ItemKeys : Relate(m, n, k)
    \/ \E s \in Syncs :
        BeginMemorySync(s) \/ Look(s) \/ Put(s) \/ Join(s) \/ EndSync(s) \/ Break(s)
    \/ \E c \in Curators :
        \/ \E id \in DOMAIN items : BeginSupersede(c, id)
        \/ \E hash \in Hashes : BeginRegisterAsset(c, hash)
        \/ Supersede(c) \/ RegisterAsset(c) \/ GiveUpCuration(c)

MemorySpec == MemoryInit /\ [][MemoryNext]_memoryVars

------------------------------------------------------------------------------
(***************************************************************************)
(* What the organisation's memory says of its missions.                    *)
(***************************************************************************)

\* Items have an identity and a revision their mission has had.
MemoryTypes ==
    /\ DOMAIN items \subseteq ItemKeys \cup Successors
    /\ \A k \in ItemKeys \cap DOMAIN items : items[k].revision \in 1 .. Len(story[k[1]])
    /\ \A s \in Successors \cap DOMAIN items : items[s].over \in DOMAIN items \ {s}

(***************************************************************************)
(* While no two synchronisations overlap, an item says of its record what  *)
(* the document said at the revision the item names: in words, and not     *)
(* before the record was written or after it was removed.                  *)
(***************************************************************************)
ItemsShowTheirRevision ==
    ~overlapped =>
        \A k \in ItemKeys \cap DOMAIN items :
            /\ items[k].text = story[k[1]][items[k].revision].texts[k[2]]
            /\ items[k].text # 0
==============================================================================
