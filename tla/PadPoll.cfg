\* A pad of three buttons, each reported twice, under a sound driver that
\* stores odd and even bytes.
SPECIFICATION PollSpec
CONSTANTS
  Buttons = 3
  Lasting = 2
  SoundData = {0, 1}
INVARIANTS
  PollAligned
PROPERTIES
  NoPhantomButton
  ReportedInFull
  ButtonsGoUp
