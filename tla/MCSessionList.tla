--------------------------- MODULE MCSessionList ----------------------------
(***************************************************************************)
(* Small instances of SessionList: the clock is bounded by MaxTime.        *)
(***************************************************************************)
EXTENDS SessionList

MCSessions == 1 .. 3
MCOwner == <<"u1", "u1", "u1">>
MCBiz   == <<"b1", "b1", "b2">>

\* No biz_id in the request, or one of the two.
MCFilters == {{"b1", "b2"}, {"b1"}}
=============================================================================
