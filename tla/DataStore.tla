------------------------------ MODULE DataStore ------------------------------
(***************************************************************************)
(* What the dataset registry promises to the tabs: a store with one cell   *)
(* per key. A page puts its file into the cell of its key, the loading of  *)
(* a cell ends once, a cell is emptied as a whole, and a tab shows what a  *)
(* ready cell holds at one moment. The objects, tasks, locks and           *)
(* finalisers behind it (Registry) do not show.                            *)
(***************************************************************************)
CONSTANTS
  Uris,      \* the event files
  NameOf,    \* the key of a file
  Clients,   \* browser tabs
  NoUri

VARIABLES
  content,   \* the cell of each key: its status and its file
  saved,     \* the files that the cache can restore
  shown      \* the file whose image a tab displays

vars == <<content, saved, shown>>

Keys == {NameOf[u] : u \in Uris}
Cell(status, u) == [status |-> status, uri |-> u]
Empty == Cell("empty", NoUri)

Init ==
  /\ content = [k \in Keys |-> Empty]
  /\ saved \in SUBSET Uris
  /\ shown = [c \in Clients |-> NoUri]

(* A page replaces whatever is in the cell of its file's key. *)
Insert(u) ==
  /\ \/ content' = [content EXCEPT ![NameOf[u]] = Cell("loading", u)]
     \/ u \in saved /\ content' = [content EXCEPT ![NameOf[u]] = Cell("ready", u)]
  /\ UNCHANGED <<saved, shown>>

Finish(k) ==
  /\ content[k].status = "loading"
  /\ \E s \in {"ready", "failed"} :
       content' = [content EXCEPT ![k] = Cell(s, content[k].uri)]
  /\ UNCHANGED <<saved, shown>>

Remove(k) ==
  /\ content' = [content EXCEPT ![k] = Empty]
  /\ UNCHANGED <<saved, shown>>

Save(u) ==
  /\ saved' = saved \cup {u}
  /\ UNCHANGED <<content, shown>>

Show(c, k) ==
  /\ content[k].status = "ready" /\ shown[c] = NoUri
  /\ shown' = [shown EXCEPT ![c] = content[k].uri]
  /\ UNCHANGED <<content, saved>>

Hide(c) ==
  /\ shown' = [shown EXCEPT ![c] = NoUri]
  /\ UNCHANGED <<content, saved>>

Next ==
  \/ \E u \in Uris : Insert(u) \/ Save(u)
  \/ \E k \in Keys : Finish(k) \/ Remove(k)
  \/ \E c \in Clients : Hide(c) \/ \E k \in Keys : Show(c, k)

Spec == Init /\ [][Next]_vars
=============================================================================
