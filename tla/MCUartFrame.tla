---------------------------- MODULE MCUartFrame ----------------------------
(***************************************************************************)
(* Small instances of UartFrame.  The board sends a frame without payload, *)
(* and one whose payload holds a header and whose check sum ends like a    *)
(* tailer begins.                                                          *)
(***************************************************************************)
EXTENDS UartFrame

Heart == <<H, H, 0, 1, 2, 0, 0, 3, 4, T, T>>
Event == <<H, H, 0, 2, 1, 0, 3, H, H, 0, 5, T, T, T>>
BoardFrames == {Heart, Event}

ASSUME BoardFramesFit == FramesWellFormed
=============================================================================
