------------------------------- MODULE MCAta -------------------------------
EXTENDS Ata

MCChannels == <<"primary", "secondary">>
MCLbas == {0, 1}
MCData == {"old", "new"}
MCIndices == {0, 1, 3}
=============================================================================
