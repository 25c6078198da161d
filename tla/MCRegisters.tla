---------------------------- MODULE MCRegisters -----------------------------
EXTENDS Registers

MCGroups ==
  {"direct", "staged", "network", "tuning", "switch", "module", "coherent", "power", "ber",
   "bert", "loopback", "diag"}
FilterOnly == {"filter"}
MCFills == {0, 1}
MCLaneMasks == {{1}, 0 .. 3}
MCTargets == {0, 15, 16}
MCPatterns == {0, 1}
MCBertBlocks == {{"host_gen", "media_chk"}, {"host_chk", "media_gen"}, Blocks}
\* Thresholds in dBm: 0, 0.29, 0.295, -12.5 and the ends of the range.
MCPowers == {0, 290, 295, -12500, 327670, -327680}
\* Bit error ratios that half precision has as normal numbers, exactly or not,
\* the smallest of them, powers of two below it, and nothing.
MCBitErrors == {0, 64, 8192, 65536, 100000, 131071, 1073742, 10737418, 1073741824}
MCPasswords == {257, 2}
MCTexts == {<<>>, <<7>>, <<7, 9>>, <<7, 9, 8>>, <<7, 9, 8, 6, 5>>}
=============================================================================
