------------------------------- MODULE MCToClef -------------------------------
(* A small instance of ToClef for TLC.                                     *)
EXTENDS ToClef

\* host is in all three sources, and in the payload in the form of a prefixed
\* name too; X comes from two keys of the payload and is moved by a third;
\* level and lvl are alternatives for a meta; @l is the event's own.
MCEmbeddedNames == {<<0, "host">>, <<0, "X">>, <<0, "level">>, <<0, "lvl">>}

MCEscapedNames == {<<0, "host">>}

MCPayloadKeys ==
  {<<1, "host">>, <<3, "host">>, <<0, "X">>, <<1, "X">>, <<3, "X">>,
   <<1, "level">>, <<1, "@l">>}

\* One name, once in each source.
MCOneKey == {<<1, "host">>}
=============================================================================
