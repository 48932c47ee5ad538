---------------------------- MODULE MCLifecycle ----------------------------
(***************************************************************************)
(* A small instance of Lifecycle: a new database, or one of a board with   *)
(* one subforum, to which others have been added, among them two whose IDs *)
(* need escaping: one leads to another's page, one nowhere; a file that    *)
(* makes no buckets; and two files that LoadConfig must refuse.            *)
(***************************************************************************)
EXTENDS Lifecycle

Chat  == [id |-> "chat", name |-> "Chat", thread |-> 0, reply |-> 0]
News  == [id |-> "news", name |-> "News", thread |-> 1, reply |-> 0]
Other == [id |-> "chat", name |-> "Other", thread |-> 0, reply |-> 0]
Old   == [id |-> "chat (old)", name |-> "Old chat", thread |-> 0, reply |-> 0]
Half  == [id |-> "50%", name |-> "Half", thread |-> 0, reply |-> 0]
Blank == [id |-> "", name |-> "Blank", thread |-> 0, reply |-> 0]

\* The client cuts the first at the blank; the second is no URL.
MCPathParts(id) ==
  CASE id = "chat (old)" -> <<"f", "chat">>
    [] id = "50%" -> <<>>
    [] id = "" -> <<"f">>
    [] OTHER -> <<"f", id>>

MCEarlier == {<<>>, <<[name |-> "A", subforums |-> <<Chat>>]>>}

MCConfigurations ==
  { <<[name |-> "A", subforums |-> <<News, Old, Half>>], [name |-> "B", subforums |-> <<Chat>>]>>,
    <<[name |-> "A", subforums |-> <<Chat, Blank>>]>>,
    <<[name |-> "A", subforums |-> <<Chat>>], [name |-> "B", subforums |-> <<Other>>]>>,
    <<[name |-> "A", subforums |-> <<Chat>>], [name |-> "A", subforums |-> <<News>>]>> }
=============================================================================
