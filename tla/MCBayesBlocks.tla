--------------------------- MODULE MCBayesBlocks ---------------------------
(* A sample that is divided three times, into sections of two to four      *)
(* points; with the counts, some sections cannot be cut into blocks, some  *)
(* make one block and some two.                                            *)
EXTENDS BayesBlocks

MCSample == <<0, 2, 4, 5, 6, 10, 11, 12, 14, 15>>

MCCounts == {w \in [1 .. 10 -> {1, 10}] : \A p \in {3, 6, 9} : w[p] = 1}

(* 100 times the logarithms of 1 to 160 *)
MCLn == <<
  0, 69, 110, 139, 161, 179, 195, 208, 220, 230, 240, 248, 256, 264, 271, 277,
  283, 289, 294, 300, 304, 309, 314, 318, 322, 326, 330, 333, 337, 340, 343, 347,
  350, 353, 356, 358, 361, 364, 366, 369, 371, 374, 376, 378, 381, 383, 385, 387,
  389, 391, 393, 395, 397, 399, 401, 403, 404, 406, 408, 409, 411, 413, 414, 416,
  417, 419, 420, 422, 423, 425, 426, 428, 429, 430, 432, 433, 434, 436, 437, 438,
  439, 441, 442, 443, 444, 445, 447, 448, 449, 450, 451, 452, 453, 454, 455, 456,
  457, 458, 460, 461, 462, 462, 463, 464, 465, 466, 467, 468, 469, 470, 471, 472,
  473, 474, 474, 475, 476, 477, 478, 479, 480, 480, 481, 482, 483, 484, 484, 485,
  486, 487, 488, 488, 489, 490, 491, 491, 492, 493, 493, 494, 495, 496, 496, 497,
  498, 498, 499, 500, 500, 501, 502, 502, 503, 504, 504, 505, 506, 506, 507, 508>>
=============================================================================
