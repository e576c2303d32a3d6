---------------------------- MODULE MCDsiWareSave ----------------------------
(* DsiWareSave over small sizes, those at its thresholds and the sizes DSiWare *)
(* titles ask for (powers of two from 16 KB to 4 MB), and both ends of the u16. *)
EXTENDS DsiWareSave

MCMaxSectors ==
    0..80 \cup {341, 342, 343, 512, 682, 683, 684, 1119, 1120, 1121}
          \cup 1023..1030 \cup {2048, 4096, 4097, 8192, 8193, 8250, 16384, 32672}
          \cup {65535, 65536}
==============================================================================
