--------------------------- MODULE MCNativeQueues ---------------------------
EXTENDS NativeQueues

V(pts) == [kind |-> "video", pts |-> pts]
A(pts) == [kind |-> "audio", pts |-> pts]
Boundary == [kind |-> "boundary", pts |-> 0]

\* Pictures and sound in turn; more pictures than the queue takes, and the
\* sound that the gate asks for never comes; a programme boundary; sound that
\* outlasts the picture.
SoundGoesOn == <<V(0), A(0), A(1), A(2)>>
MCStreams ==
  {<<A(0), V(0), V(1)>>, <<V(0), V(2), V(3)>>, <<V(0), A(0), Boundary>>, SoundGoesOn}
MCOutlasted == {SoundGoesOn}

=============================================================================
