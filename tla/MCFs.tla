-------------------------------- MODULE MCFs --------------------------------
(* The two files of fs_init and a third name; texts as long as the factory's *)
(* key, shorter and longer.                                                  *)
EXTENDS Fs

CONSTANTS key, demo, other, old, script, new

MCNames == {key, demo, other}
MCFactory == <<<<key, <<old, old>>>>, <<demo, <<script, script>>>>>>
MCTexts == {<<new>>, <<new, new>>, <<new, new, new>>}
MCHeads == {<<new>>}
=============================================================================
