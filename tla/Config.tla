------------------------------- MODULE Config -------------------------------
(***************************************************************************)
(* The board's configuration, as far as other components read it: the      *)
(* forums, each with its subforums.  config.go, forums.go, and the two     *)
(* look-ups by ID in subforumIndex.go and threads.go.                      *)
(*                                                                         *)
(* A configuration is a sequence of forums [name, subforums], a subforum   *)
(* is [id, name, thread, reply]: the last two are the levels it asks for.  *)
(***************************************************************************)
EXTENDS Naturals, SequencesExt

\* The parts, between slashes, of the path that a request has when a link to /f/<id>/ is
\* followed.  The link is not escaped, and the path of a request is: they are "f" and the
\* ID if it needs no escaping, but else the client cuts the ID at a blank, or a slash
\* does, or it comes back with percent signs, or not at all (<<>>).
CONSTANT PathParts(_)

Subforum == [id: STRING, name: STRING, thread: Nat, reply: Nat]
Forum    == [name: STRING, subforums: Seq(Subforum)]

\* Every subforum, in the order of the file.
AllSubforums(c) == FlattenSeq([f \in DOMAIN c |-> c[f].subforums])

GetAllSubforumIDs(c) == [k \in DOMAIN AllSubforums(c) |-> AllSubforums(c)[k].id]

\* A slip: the map of IDs is made anew for each forum.
LoadConfig_PerForum(c) ==
  /\ IsInjective([f \in DOMAIN c |-> c[f].name])
  /\ \A f \in DOMAIN c : IsInjective([k \in DOMAIN c[f].subforums |-> c[f].subforums[k].id])

\* What LoadConfig accepts: no forum name twice, no subforum ID twice, in
\* whatever forums.
LoadConfig(c) ==
  /\ IsInjective([f \in DOMAIN c |-> c[f].name])
  /\ IsInjective(GetAllSubforumIDs(c))

\* The home page links every subforum by its ID under its name.
RootLinks(c) ==
  [k \in DOMAIN AllSubforums(c) |-> [path |-> PathParts(AllSubforums(c)[k].id), name |-> AllSubforums(c)[k].name]]

\* Both look-ups take the first entry with the ID; 0 where there is none.
FirstWithID(c, id) ==
  LET all == AllSubforums(c)
      hits == {k \in DOMAIN all : all[k].id = id}
  IN  IF hits = {} THEN 0 ELSE CHOOSE k \in hits : \A j \in hits : k <= j

SubforumExists(c, id) == FirstWithID(c, id) # 0

\* The title of the page at /f/<id>/.
SubforumName(c, id) == AllSubforums(c)[FirstWithID(c, id)].name

\* The answer to a path: /f/ alone is the home page.
SubforumIndexHandler(c, parts) ==
  CASE Len(parts) = 1 -> [status |-> "home"]
    [] Len(parts) \notin 1 .. 2 -> [status |-> "bad input"]
    [] Len(parts) = 2 /\ ~SubforumExists(c, parts[2]) -> [status |-> "not found"]
    [] OTHER -> [status |-> "subforum", id |-> parts[2], name |-> SubforumName(c, parts[2])]

GetSubforumPrivFromID(c, id) ==
  LET s == AllSubforums(c)[FirstWithID(c, id)] IN [thread |-> s.thread, reply |-> s.reply]
=============================================================================
