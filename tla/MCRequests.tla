----------------------------- MODULE MCRequests -----------------------------
(* Small instances of Requests for TLC. *)
EXTENDS Requests

CONSTANTS a1, a2, png, mp4

User(digits) == [protocol |-> "dsnp", msaId |-> digits]
Nobody == User(<<>>)
Tag(type, name, uri) == [type |-> type, name |-> name, mentionedId |-> uri]
Asset(type, references) == [type |-> type, references |-> references, href |-> type = "link"]

Plain == [type |-> "broadcast", published |-> "both", tags |-> <<>>, assets |-> <<>>,
          array |-> FALSE, icon |-> <<>>, uri |-> User(<<1>>), target |-> "none"]

(* A body of each type with its assets, in two orders; what each check is there to reject; *)
(* and what a request looks like that is close to another.                                 *)
Notes == {[Plain EXCEPT !.assets = s] :
            s \in {<<Asset("image", <<a1, a2>>), Asset("link", <<>>), Asset("video", <<a2>>)>>,
                   <<Asset("image", <<a1>>), Asset("image", <<a1>>)>>,
                   <<Asset("image", <<a1, a1>>)>>, <<Asset("audio", <<>>)>>,
                   <<Asset("text", <<a1>>)>>, <<[Asset("link", <<>>) EXCEPT !.href = FALSE]>>}}
Dates == {[Plain EXCEPT !.published = p] : p \in {"isoOnly", "jsOnly", "neither", "none"}}
Tags == {[Plain EXCEPT !.tags = <<t>>] :
           t \in {Tag("hashtag", TRUE, Nobody), Tag("hashtag", FALSE, Nobody),
                  Tag("mention", TRUE, User(<<2>>)), Tag("mention", TRUE, User(<<0, 2>>)),
                  Tag("cashtag", TRUE, Nobody)}}
Profiles == {[Plain EXCEPT !.type = "profile", !.icon = s, !.published = "none"] :
               s \in {<<a1, a2>>, <<a1, a1>>}}
Reactions == {[Plain EXCEPT !.type = "reaction", !.uri = [protocol |-> p, msaId |-> digits]] :
                p \in {"dsnp"}, digits \in {<<>>, <<0>>, <<7>>, <<0, 7>>, <<1, 2>>, <<1, 3>>}}
             \cup {[Plain EXCEPT !.type = "reaction", !.uri.protocol = "http"]}
Targets == {[Plain EXCEPT !.type = type, !.target = t] :
              type \in {"update", "tombstone"}, t \in {"reply", "reaction"}}
Arrays == {[Plain EXCEPT !.type = type, !.array = TRUE, !.published = "none"] :
             type \in {"broadcast", "profile"}}
          \cup {[Plain EXCEPT !.tags = <<Tag("array", FALSE, Nobody)>>],
                [Plain EXCEPT !.assets = <<Asset("array", <<>>), Asset("image", <<a1>>)>>]}
Replies == {[Plain EXCEPT !.type = "reply", !.assets = <<Asset("video", <<a1>>)>>]}

MCBodies ==
    Notes \cup Dates \cup Tags \cup Profiles \cup Reactions \cup Targets \cup Arrays \cup Replies
=============================================================================
