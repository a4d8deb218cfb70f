----------------------------- MODULE MCTopicTree -----------------------------
(* Names for TopicTree: one, two and three levels, two branches and a topic  *)
(* on the first, and a topic on the way to two others.                       *)
EXTENDS TopicTree

MCNames == {<<1, 1>>, <<1, 1, 2>>, <<1, 1, 3>>, <<2, 1>>, <<3>>}
MCChars == {1, 2, Dot}
=============================================================================
