-------------------------- MODULE MCDenormTriggers --------------------------
(***************************************************************************)
(* Members write posts, which have an author and another editor, bookmark  *)
(* them and have bosses; tags point to members or posts.                   *)
(*   Member.fame     undeclared, depends on 'self' (the boss) and,         *)
(*                   backward, on the posts of the author                  *)
(*   Member.key      a cache key, depends on the bookmarked posts          *)
(*   Post.byline     on the author's name, and in the second version on    *)
(*                   whether the editor has a boss                         *)
(*   Post.tagline    on the tags; in the second version safe: on rank      *)
(***************************************************************************)
EXTENDS DenormTriggers, TLC

CONSTANTS Member, Post, Tag, Bookmark

Bits == {0, 1}
Persons == {1, 2}

MCTables == {Member, Post, Tag, Bookmark}
MCColumns ==
    (Member :> {"name", "boss", "fame", "key"})
    @@ (Post :> {"author", "editor", "byline", "tagline"})
    @@ (Tag :> {"ct", "oid"})
    @@ (Bookmark :> {"member", "post"})
MCKeyed == {<<Member, "key">>}
MCPks ==
    (Member :> Persons) @@ (Post :> {1}) @@ (Tag :> {1}) @@ (Bookmark :> {1})
MCContents ==
    (Member :> [name : Bits, boss : {Null, 1}, fame : Bits])
    @@ (Post :> {v \in [author : Persons \cup {Null}, editor : Persons,
                          byline : Bits, tagline : Bits] : v.author # v.editor})
    @@ (Tag :> [ct : {1, 2}, oid : {1}])
    @@ (Bookmark :> [member : Persons, post : {1}])
Key(name, from, to) ==
    [kind |-> "fk", name |-> name, from |-> from, to |-> to, column |-> name]
MCRelations ==
    {Key("boss", Member, Member), Key("author", Post, Member),
     Key("editor", Post, Member),
     [kind |-> "m2m", name |-> "bookmarks", from |-> Member, to |-> Post,
      table |-> Bookmark, column |-> "member", reverse |-> "post"],
     [kind |-> "generic", name |-> "tags", from |-> Post, to |-> Tag,
      column |-> "oid", ctcolumn |-> "ct"]}
MCNothing == [t \in MCTables |-> {}]

On(other, fk, type, skip, only) ==
    [other |-> other, fk |-> fk, type |-> type, skip |-> skip, only |-> only]
Declare(model, field, kind, fields, related) ==
    [model |-> model, field |-> field, kind |-> kind, 
     func |-> IF kind = "cachekey" THEN None ELSE <<model, field>>,
     fields |-> fields, related |-> related, skip |-> {}, only |-> {}]
Fame ==
    Declare(Member, "fame", "callback", Undeclared,
        {On(Member, None, "forward", {}, {}),
         On(Post, "author", None, {"byline"}, {})})
CacheKey ==
    Declare(Member, "key", "cachekey", {},
        {On(Post, "bookmarks", None, {}, {})})
ByAuthor == On(Member, "author", None, {}, {"name"})
ByEditor == On(Member, "editor", None, {}, {"boss"})
MCCode ==
    (1 :> {Fame, CacheKey,
           Declare(Post, "byline", "callback", {"author"}, {ByAuthor}),
           Declare(Post, "tagline", "callback", {}, {On(Tag, None, None, {}, {})})})
    @@ (2 :> {Fame, CacheKey,
           Declare(Post, "byline", "callback", {"author", "editor"},
                   {ByAuthor, ByEditor}),
           Declare(Post, "tagline", "callback", {"editor"}, {})})

MCRows0 ==
    {(Member :> [p \in Persons |-> [name |-> 0, boss |-> Null, fame |-> 0]])
     @@ (Post :> (1 :> [author |-> 1, editor |-> 2, byline |-> 0, tagline |-> 0]))
     @@ (Tag :> (1 :> tag))
     @@ (Bookmark :> (1 :> [member |-> 2, post |-> 1])) :
        tag \in {[ct |-> 1, oid |-> 1]}}
MCCt0 == (Member :> 1) @@ (Post :> 2)
MCLegacySelf == {Fame, Declare(Post, "tagline", "callback", Undeclared, {})}
=============================================================================
