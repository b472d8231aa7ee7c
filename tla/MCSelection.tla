------------------------------ MODULE MCSelection ------------------------------
(* Checks, and resources that the three evaluations see differently.           *)
EXTENDS SelectionGraph

Is(property, value) == [property |-> property, value |-> value]

\* Two ids, as in the example of SubscriberRegistry's tests.
TwoIds == {Is("id", "abc123"), Is("id", "xyz456")}
OneOfEach == {Is("id", "abc123"), Is("group", "a"), Is("other", "t")}
Wildcards == {Is("id", Wildcard), Is("group", Wildcard), Is("other", Wildcard)}

\* The group "a/b" is below "a", and the name of "ab" only begins like it.
NamedLike == {<<"a", "a">>, <<"a", "a/b">>, <<"a", "ab">>, <<"a/b", "a/b">>, <<"ab", "ab">>}
BelowOne == NamedLike \ {<<"a", "ab">>}

Resource(id, indexed, others, listed, groups) ==
  [id |-> id, indexed |-> indexed, others |-> others, listed |-> listed, groups |-> groups]

\* Without a record, alone or with what is left of one; with one, in a group,
\* below it or in one named alike, and listed under a type that it once had.
SomeResources ==
  {Resource("abc123", FALSE, {}, {}, {}), Resource("abc123", FALSE, {}, {"t"}, {"a"}),
   Resource("abc123", TRUE, {"t"}, {"t"}, {"a/b"}), Resource("abc123", TRUE, {"u"}, {"t", "u"}, {"ab"}),
   Resource("xyz456", TRUE, {"t"}, {"t"}, {}), Resource("xyz456", TRUE, {"u"}, {"u"}, {"a"})}
=============================================================================
