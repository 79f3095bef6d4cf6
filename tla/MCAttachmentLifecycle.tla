----------------------- MODULE MCAttachmentLifecycle -----------------------
(* Two uploads and a page of one, so that the collector needs two pages; one *)
(* of the keys can be shown by the message and by the space's icon at once.  *)
EXTENDS AttachmentLifecycle, TLC

CONSTANTS m1, s1, c1, k1, k2

MCMessages == {m1}
MCSpaces == {s1}
MCChannels == {c1}
MCKeys == {k1, k2}
MCChannelOf == m1 :> c1
MCSpaceOf == c1 :> s1
MCScope == (m1 :> {k1, k2}) @@ (s1 :> {k2})
===========================================================================
