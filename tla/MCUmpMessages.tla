----------------------------- MODULE MCUmpMessages -----------------------------
(***************************************************************************)
(* Every class of ump_types.hpp through the dispatcher.                     *)
(***************************************************************************)
EXTENDS UmpMessages

\* The character after a view of a string literal is its terminator.
MCAfterView == {{}}

\* Two callbacks without a function.
MCUnset == {<<MT_SYSTEM, TUNE_REQUEST>>, <<MT_M2CVM, 9>>}

\* Nothing, and all bits.
MCFills == {{}, 0 .. 31}

\* Short, full, and longer than any message; the same byte throughout.
MCContents == {[i \in 1 .. size |-> v] : size \in {0, 1, 5, 12, 14}, v \in {0 .. 6, {0}}}
===============================================================================
