------------------------------- MODULE MCBtio -------------------------------
(* Instance of Btio for TLC: lists of options for each kind of socket, with *)
(* options that fail, that do not apply, of value 0, in either order.      *)
EXTENDS Btio, TLC

MCOptLists ==
    { <<<<"PSM", 31>>, <<"MTU", 2>>, <<"OMTU", 1>>, <<"MODE", 3>>, <<"SEC_LEVEL", 3>>,
        <<"MASTER", 1>>, <<"PRIORITY", 6>>>>,
      <<<<"SOURCE_TYPE", TRUE>>, <<"IMTU", 2>>, <<"MODE", 3>>, <<"FLUSHABLE", 1>>,
        <<"CID", 4>>, <<"SEC_LEVEL", 1>>>>,
      <<<<"SOURCE_TYPE", TRUE>>, <<"OMTU", 2>>, <<"PSM", 31>>, <<"SEC_LEVEL", 0>>>>,
      <<<<"PSM", 31>>, <<"CHANNEL", 5>>, <<"MASTER", 1>>, <<"SEC_LEVEL", 2>>,
        <<"MODE", 0>>, <<"PRIORITY", 0>>>>,
      <<<<"OMTU", 2>>, <<"IMTU", 1>>, <<"VOICE", 1>>, <<"MASTER", 0>>, <<"SEC_LEVEL", 4>>>>,
      <<<<"KEY_SIZE", 1>>>> }

MCGetOpts == {"KEY_SIZE", "PSM"}
=============================================================================
